---- MODULE Spec2Model ----
(***************************************************************************)
(* A model of the node/flow engine (marco/frameworks/pocketflow) and of    *)
(* the decision-loop workflows that run on it.                             *)
(*                                                                         *)
(* Python values are strings: None is "None"; a dict is a function from    *)
(* Keys to values with Absent for a missing key.                           *)
(***************************************************************************)
EXTENDS Integers, Sequences, FiniteSets, TLC

\* ------------------------------------------------------------------ bounds
\* Node runs explored per orchestration (the engine itself has no bound).
MaxSteps == 3
\* Largest max_retries a node is constructed with.
MaxRetries == 2
\* Longest list of parameter sets a batch flow's prep returns.
MaxBatch == 2
\* Most sub-flows an AsyncParallelBatchFlow launches, and node runs explored in all
\* of them together.
MaxPar == 2
MaxParRuns == 4
\* Node runs explored in one run of a decision-loop workflow, and Oracle calls
\* explored in one exec of its Controller.
MaxWfRuns == 6
MaxQueries == 2
\* Registrations followed in a script that wires nodes.
MaxRegs == 3
\* Entries of shared["context"] told apart in run_marco_research_report, whose
\* runs are followed without a bound on their node runs.
MaxContext == 2

\* ------------------------------------------------------------- value sets
None == "None"
Absent == "-"
Nodes == {"A", "B"}
StartNode == "A"
Keys == {"k1", "k2"}
RegLabels == {"default", "a"}
PostLabels == {None, "", "a", "b"}
Excs == {"e1", "e2"}
\* The labels and exceptions drawn for the nodes of concurrent sub-flows.
ParLabels == {None, "b"}
ParExcs == {"e1"}
MainTask == CHOOSE t \in 1..MaxPar : t - 1 \notin 1..MaxPar
Tasks == 1..MaxPar

EmptyDict == [k \in Keys |-> Absent]
NoEvents == [t \in Tasks |-> <<>>]

VARIABLES
    kind,          \* class of the flow object that is run
    successors,    \* registered node -> (action label -> node | None)
    node_params,   \* registered node -> its params dict
    max_retries,   \* registered node -> Node.max_retries
    wait,          \* registered node -> Node.wait
    fb_overridden, \* registered node -> does the class override exec_fallback
    flow_params,   \* the flow's own params
    prep_ret,      \* what the batch flow's prep returns: [none, items]
    shared,        \* the Context passed by reference to every node
    fpc,           \* position inside Flow._run / BatchFlow._run
    pr,            \* BatchFlow._run: pr
    bi,            \* BatchFlow._run: index of bp in pr (1-based)
    result,        \* value returned by run
    gathered,      \* asyncio.gather: sub-flow -> its returned value, "pending" before
    pc,            \* task -> position inside _orch / _run / _exec
    curr,          \* task -> _orch: curr, [id, is_copy]; id None when the loop ends
    curr_params,   \* task -> params attribute of the copy that curr refers to
    p,             \* task -> _orch: p
    cur_retry,     \* task -> Node._exec: self.cur_retry
    prep_res,      \* task -> BaseNode._run: p
    exec_res,      \* task -> BaseNode._run: e
    last_action,   \* task -> _orch: last_action
    steps,         \* task -> node runs started in this orchestration
    ev,            \* history: task -> events of the current node run
    prev,          \* history: task -> [id, action] of the node run before curr
    hist,          \* history: flow-level events
    appended,      \* history: task -> the entries its node runs appended to the Context
    wf,            \* which decision-loop workflow script is run
    wnode,         \* workflow: the node Flow._orch is at; None when the walk is over
    wpc,           \* workflow: phase of that node's run, or "done" / "raised"
    ctx,           \* workflow: the Context (shared_state)
    wprep,         \* workflow: prep_res of the node run
    wres,          \* workflow: the Controller's result / the node's exec_res
    names,         \* Controller.exec: generated_section_names / generated_names
    tsec,          \* Controller.exec (postgres): target_sections
    queries,       \* Controller.exec: Oracle calls made in this exec
    runs,          \* workflow: node runs started
    wresult,       \* workflow: value flow.run returned
    resp,          \* Controller.exec: what the last Oracle call gave, "" before any
    warned,        \* warnings.warn: the action labels warned about, in order
    regs,          \* history: the registrations made, [src, action, node, via]
    berr           \* a wiring statement raised TypeError

buildv == <<warned, regs, berr>>
prog == <<kind, successors, max_retries, wait, fb_overridden, flow_params, prep_ret, buildv>>
flowv == <<fpc, pr, bi, result, gathered>>
taskv == <<pc, curr, curr_params, p, cur_retry, prep_res, exec_res, last_action, steps>>
ghost == <<ev, prev, hist, appended>>
engine == <<prog, node_params, shared, flowv, taskv, ghost>>
wfv == <<wf, wnode, wpc, ctx, wprep, wres, names, tsec, queries, runs, wresult, resp>>
vars == <<engine, wfv>>

\* ---------------------------------------------------------------- helpers
\* {**a, **b}: the keys of b override those of a.
Merge(a, b) == [k \in Keys |-> IF b[k] # Absent THEN b[k] ELSE a[k]]

\* bool(d) is False for an empty dict.
IsEmptyDict(d) == \A k \in Keys : d[k] = Absent

NoNode == [id |-> None, is_copy |-> FALSE]

\* Mutant: the node itself is used, not a copy of it.
copy_node_alias(n) == IF n = None THEN NoNode ELSE [id |-> n, is_copy |-> FALSE]

\* copy.copy(node): a new object with the same attribute values; copy.copy(None) is None.
copy_node(n) == IF n = None THEN NoNode ELSE [id |-> n, is_copy |-> TRUE]

\* action or "default"
OrDefault(action) == IF action \in {None, ""} THEN "default" ELSE action

\* dict.get(label): None for a label that is not registered.
SuccessorsGet(n, label) ==
    IF label \in DOMAIN successors[n] THEN successors[n][label] ELSE None

\* Mutant: the label is looked up as returned, without the "default" fallback.
get_next_node_raw(n, action) == SuccessorsGet(n, action)

\* Flow.get_next_node(curr, action)
get_next_node(n, action) == SuccessorsGet(n, OrDefault(action))

\* _orch: p = params or {**self.params}
OrchParams(arg) == IF arg.none \/ IsEmptyDict(arg.d) THEN flow_params ELSE arg.d

NoArg == [none |-> TRUE, d |-> EmptyDict]

\* BatchFlow._run: pr = self.prep(shared) or []
or_empty(ret) == IF ret.none THEN <<>> ELSE ret.items

\* Mutant: the loop stops one element early.
batch_has_next_short(i) == i < Len(pr) - 1

\* BatchFlow._run: for bp in pr -- is there an element after the first i
batch_has_next(i) == i < Len(pr)

\* BatchFlow._run: {**self.params, **bp}
BatchArg(bp) == [none |-> FALSE, d |-> Merge(flow_params, bp)]

\* The params a node run reads through self.params.
ParamsOf(t) == IF curr[t].is_copy THEN curr_params[t] ELSE node_params[curr[t].id]

\* Mutant: the argument changes from one attempt to the next.
exec_arg_drift(t) == prep_res[t] + cur_retry[t]

\* Node._exec: self.exec(prep_res) -- the argument every attempt is given.
exec_arg(t) == prep_res[t]

\* Mutant: off by one, no attempt is ever the last.
is_last_attempt_late(n, i) == i = max_retries[n]

\* Mutant: the first failure is treated as the last.
is_last_attempt_first(n, i) == i = 0

\* Node._exec: if self.cur_retry == self.max_retries - 1
is_last_attempt(n, i) == i = max_retries[n] - 1

\* Node._exec: if self.wait > 0
should_sleep(n) == wait[n] > 0

\* What a node's post may return and its exec may raise in this family of runs.
NodeLabels == IF kind = "AsyncParallelBatchFlow" THEN ParLabels ELSE PostLabels
NodeExcs == IF kind = "AsyncParallelBatchFlow" THEN ParExcs ELSE Excs

RECURSIVE SumSteps(_)
SumSteps(n) == IF n = 0 THEN 0 ELSE steps[n] + SumSteps(n - 1)

\* The node runs the model explores: MaxSteps in one orchestration, MaxParRuns in
\* the concurrent sub-flows together.
WithinBounds(t) ==
    /\ steps[t] < MaxSteps
    /\ kind = "AsyncParallelBatchFlow" => SumSteps(MaxPar) < MaxParRuns

\* Value an overriding exec_fallback returns for exception e.
FbVal(e) == IF e = "e1" THEN "f1" ELSE "f2"

\* prep(shared) of the nodes the engine is run on: a value read from the Context.
node_prep(sh) == Len(sh.log)

\* A flow-level history entry: what happened, for which iteration, and the size of
\* the Context at that moment.
Mark(k, i) == [k |-> k, i |-> i, n |-> Len(shared.log)]

Event(k, a, r) == [k |-> k, a |-> a, r |-> r]

\* The batch iteration a task's orchestration belongs to.
IterOf(t) == IF kind = "AsyncParallelBatchFlow" THEN t ELSE bi

\* Mutant: an exception in one task cancels the tasks that have not ended.
raise_cancels_siblings(pcs, t) ==
    [u \in DOMAIN pcs |->
        IF u = t THEN "raised"
        ELSE IF pcs[u] \in {"idle", "returned", "raised"} THEN pcs[u]
        ELSE "cancelled"]

\* The exception leaves the frames of the task it is raised in; asyncio.gather
\* (line 175, return_exceptions not set) hands the first exception to its awaiter
\* and leaves the other tasks as they are.
raise_task(pcs, t) == [pcs EXCEPT ![t] = "raised"]

\* An exception leaves the orchestration of task t and, through it, run().
Raise(t) ==
    /\ pc' = raise_task(pc, t)
    /\ fpc' = "raised"

\* ------------------------------------------------- Flow._orch (lines 82-89)
\* curr, p, last_action = copy.copy(self.start_node), (params or {**self.params}), None
OrchStart(t, arg) ==
    /\ curr' = [curr EXCEPT ![t] = copy_node(StartNode)]
    /\ curr_params' = [curr_params EXCEPT ![t] = node_params[StartNode]]
    /\ p' = [p EXCEPT ![t] = OrchParams(arg)]
    /\ last_action' = [last_action EXCEPT ![t] = None]
    /\ pc' = [pc EXCEPT ![t] = "loop"]
    /\ steps' = [steps EXCEPT ![t] = 0]
    /\ prev' = [prev EXCEPT ![t] = [id |-> None, action |-> None]]
    /\ ev' = [ev EXCEPT ![t] = <<>>]
    /\ UNCHANGED <<cur_retry, prep_res, exec_res>>

\* while curr: curr.set_params(p); curr._run(shared) up to the return of prep
NodePrep(t) ==
    /\ pc[t] = "loop"
    /\ curr[t].id # None
    /\ WithinBounds(t)
    /\ prep_res' = [prep_res EXCEPT ![t] = node_prep(shared)]
    /\ ev' = [ev EXCEPT ![t] = <<Event("prep", curr[t].id, node_prep(shared))>>]
    /\ IF curr[t].is_copy
         THEN curr_params' = [curr_params EXCEPT ![t] = p[t]] /\ UNCHANGED node_params
         ELSE node_params' = [node_params EXCEPT ![curr[t].id] = p[t]] /\ UNCHANGED curr_params
    /\ cur_retry' = [cur_retry EXCEPT ![t] = 0]
    /\ steps' = [steps EXCEPT ![t] = @ + 1]
    /\ pc' = [pc EXCEPT ![t] = "exec"]
    /\ UNCHANGED <<wfv, appended, prog, shared, flowv, curr, p, exec_res, last_action, prev, hist>>

\* Node._exec: range(self.max_retries) is exhausted (at once when max_retries <= 0)
\* and the method falls off its end, returning None.
NodeExecNoAttempt(t) ==
    /\ pc[t] = "exec"
    /\ cur_retry[t] >= max_retries[curr[t].id]
    /\ exec_res' = [exec_res EXCEPT ![t] = None]
    /\ pc' = [pc EXCEPT ![t] = "post"]
    /\ UNCHANGED <<wfv, prog, node_params, shared, flowv, curr, curr_params, p, cur_retry,
                   prep_res, last_action, steps, ghost>>

\* Node._exec: an attempt of exec(prep_res) that returns.
NodeExecReturn(t) ==
    /\ pc[t] = "exec"
    /\ cur_retry[t] < max_retries[curr[t].id]
    /\ exec_res' = [exec_res EXCEPT ![t] = "v"]
    /\ ev' = [ev EXCEPT ![t] = Append(@, Event("exec", exec_arg(t), "ok"))]
    /\ pc' = [pc EXCEPT ![t] = "post"]
    /\ UNCHANGED <<wfv, appended, prog, node_params, shared, flowv, curr, curr_params, p, cur_retry,
                   prep_res, last_action, steps, prev, hist>>

\* Node._exec: an attempt that raises e; the last one calls exec_fallback(prep_res, e),
\* the others sleep when wait > 0 and go on with the next attempt.
NodeExecRaise(t) ==
    /\ pc[t] = "exec"
    /\ cur_retry[t] < max_retries[curr[t].id]
    /\ \E e \in NodeExcs :
        LET n == curr[t].id
            attempt == Event("exec", exec_arg(t), e)
        IN  IF is_last_attempt(n, cur_retry[t])
              THEN IF fb_overridden[n]
                     THEN /\ exec_res' = [exec_res EXCEPT ![t] = FbVal(e)]
                          /\ ev' = [ev EXCEPT ![t] = @ \o <<attempt, Event("fallback", e, FbVal(e))>>]
                          /\ pc' = [pc EXCEPT ![t] = "post"]
                          /\ UNCHANGED <<fpc, cur_retry>>
                     ELSE /\ ev' = [ev EXCEPT ![t] = @ \o <<attempt, Event("fallback", e, "raise")>>]
                          /\ Raise(t)
                          /\ UNCHANGED <<exec_res, cur_retry>>
              ELSE /\ ev' = [ev EXCEPT ![t] = Append(@, attempt)]
                   /\ IF should_sleep(n)
                        THEN pc' = [pc EXCEPT ![t] = "sleep"] /\ UNCHANGED cur_retry
                        ELSE cur_retry' = [cur_retry EXCEPT ![t] = @ + 1] /\ UNCHANGED pc
                   /\ UNCHANGED <<fpc, exec_res>>
    \* the exception a sub-flow ends with is handed to gather
    /\ hist' = IF kind = "AsyncParallelBatchFlow" /\ pc'[t] = "raised"
                 THEN Append(hist, Mark("raise", t))
                 ELSE hist
    /\ UNCHANGED <<wfv, appended, prog, node_params, shared, pr, bi, result, gathered, curr, curr_params, p,
                   prep_res, last_action, steps, prev>>

\* time.sleep(self.wait), then the next iteration of the for loop.
NodeSleep(t) ==
    /\ pc[t] = "sleep"
    /\ ev' = [ev EXCEPT ![t] = Append(@, Event("wait", "", ""))]
    /\ cur_retry' = [cur_retry EXCEPT ![t] = @ + 1]
    /\ pc' = [pc EXCEPT ![t] = "exec"]
    /\ UNCHANGED <<wfv, appended, prog, node_params, shared, flowv, curr, curr_params, p,
                   prep_res, exec_res, last_action, steps, prev, hist>>

\* Mutant: post writes back the list it read before the last entry was appended.
log_append_stale(log, x) ==
    IF log = <<>> THEN <<x>> ELSE Append(SubSeq(log, 1, Len(log) - 1), x)

\* post of the nodes the engine is run on: shared["log"].append(node), with no
\* await between reading the list and appending to it.
log_append(log, x) == Append(log, x)

\* return self.post(shared, p, e); last_action = curr._run(shared)
NodePost(t) ==
    /\ pc[t] = "post"
    /\ \E a \in NodeLabels :
        /\ last_action' = [last_action EXCEPT ![t] = a]
        /\ ev' = [ev EXCEPT ![t] = Append(@, Event("post", exec_res[t], a))]
    /\ shared' = [shared EXCEPT !.log = log_append(@, curr[t].id)]
    /\ appended' = [appended EXCEPT ![t] = Append(@, curr[t].id)]
    /\ pc' = [pc EXCEPT ![t] = "advance"]
    /\ UNCHANGED <<wfv, prog, node_params, flowv, curr, curr_params, p, cur_retry,
                   prep_res, exec_res, steps, prev, hist>>

\* Mutant: the orchestration goes on without awaiting the end of the node run.
node_run_returned_early(t) == pc[t] \in {"post", "advance"}

\* last_action = curr._run(shared) / await curr._run_async(shared) has returned
node_run_returned(t) == pc[t] = "advance"

\* curr = copy.copy(self.get_next_node(curr, last_action)); return last_action
OrchAdvance(t) ==
    /\ node_run_returned(t)
    /\ LET nxt == get_next_node(curr[t].id, last_action[t])
       IN  /\ curr' = [curr EXCEPT ![t] = copy_node(nxt)]
           /\ curr_params' = [curr_params EXCEPT ![t] =
                                IF nxt = None THEN EmptyDict ELSE node_params[nxt]]
           /\ pc' = [pc EXCEPT ![t] = IF nxt = None THEN "returned" ELSE "loop"]
           /\ hist' = IF nxt = None
                        THEN Append(hist, Mark("end", IterOf(t)))
                        ELSE hist
           /\ gathered' = IF nxt = None /\ kind = "AsyncParallelBatchFlow"
                            THEN [gathered EXCEPT ![t] = last_action[t]]
                            ELSE gathered
    /\ prev' = [prev EXCEPT ![t] = [id |-> curr[t].id, action |-> last_action[t]]]
    \* the frame of _run and the copy of the node that ran are gone
    /\ prep_res' = [prep_res EXCEPT ![t] = -1]
    /\ exec_res' = [exec_res EXCEPT ![t] = None]
    /\ cur_retry' = [cur_retry EXCEPT ![t] = 0]
    /\ ev' = [ev EXCEPT ![t] = <<>>]
    /\ UNCHANGED <<wfv, appended, prog, node_params, shared, fpc, pr, bi, result, p, last_action, steps>>

\* ------------------------------------------------- Flow._run (lines 90-95)
\* p = self.prep(shared); o = self._orch(shared)
FlowRun ==
    /\ kind = "Flow"
    /\ fpc = "init"
    /\ fpc' = "orch"
    /\ OrchStart(MainTask, NoArg)
    /\ hist' = Append(hist, Mark("start", 0))
    /\ UNCHANGED <<wfv, appended, prog, node_params, shared, pr, bi, result, gathered>>

\* return self.post(shared, p, o), and Flow.post returns exec_res
FlowPost ==
    /\ kind = "Flow"
    /\ fpc = "orch"
    /\ pc[MainTask] = "returned"
    /\ result' = last_action[MainTask]
    /\ fpc' = "done"
    /\ pc' = [pc EXCEPT ![MainTask] = "idle"]
    /\ hist' = Append(hist, Mark("post", 0))
    /\ UNCHANGED <<wfv, appended, prog, node_params, shared, pr, bi, gathered, curr, curr_params, p, cur_retry,
                   prep_res, exec_res, last_action, steps, ev, prev>>

\* -------------------------------------------- BatchFlow._run (lines 99-103)
\* pr = self.prep(shared) or []
BatchPrep ==
    /\ kind = "BatchFlow"
    /\ fpc = "init"
    /\ pr' = or_empty(prep_ret)
    /\ bi' = 0
    /\ fpc' = "loop"
    /\ UNCHANGED <<wfv, prog, node_params, shared, result, gathered, taskv, ghost>>

\* for bp in pr: self._orch(shared, {**self.params, **bp})
BatchIter ==
    /\ kind = "BatchFlow"
    /\ fpc = "loop"
    /\ pc[MainTask] \in {"idle", "returned"}
    /\ batch_has_next(bi)
    /\ bi' = bi + 1
    /\ OrchStart(MainTask, BatchArg(pr[bi + 1]))
    /\ hist' = Append(hist, Mark("start", bi + 1))
    /\ UNCHANGED <<wfv, appended, prog, node_params, shared, fpc, pr, result, gathered>>

\* return self.post(shared, pr, None)
BatchPost ==
    /\ kind = "BatchFlow"
    /\ fpc = "loop"
    /\ pc[MainTask] \in {"idle", "returned"}
    /\ ~batch_has_next(bi)
    /\ result' = None
    /\ fpc' = "done"
    /\ pc' = [pc EXCEPT ![MainTask] = "idle"]
    /\ hist' = Append(hist, Mark("post", 0))
    /\ UNCHANGED <<wfv, appended, prog, node_params, shared, pr, bi, gathered, curr, curr_params, p, cur_retry,
                   prep_res, exec_res, last_action, steps, ev, prev>>

\* ------------------------------------------------------- the sync engine
\* --------------------------------- values of the decision-loop workflows
\* Section names an Oracle answer may carry, and the name GenerateSection.exec
\* gives a section it cannot read.
SecNames == {"s1", "s2"}
ErrName == "err"

\* A search_terms value: a list, or a scalar (a string, iterated by character).
Terms(l) == [t |-> "list", l |-> l]
BadTerms == [t |-> "bad", l |-> <<"c">>]
NoTerms == [t |-> "none", l |-> <<>>]

\* A section value: a dict with a name (and maybe a focus), a list of such dicts
\* given by their names, anything else, or no section key at all.
DictSection(n, f) == [t |-> "dict", name |-> n, focus |-> f, names |-> <<>>]
ListSection(l) == [t |-> "list", name |-> "", focus |-> FALSE, names |-> l]
BadSection == [t |-> "bad", name |-> "", focus |-> FALSE, names |-> <<>>]
NoSection == [t |-> "none", name |-> "", focus |-> FALSE, names |-> <<>>]

\* An Oracle call: it fails ("error"), or responds without a yaml fence ("nofence"),
\* with a fenced text yaml.safe_load rejects ("badyaml"), with a fenced value that is
\* not a mapping with the keys action and reason ("notdict"), or with such a mapping.
Answer(form, action, terms, section) ==
    [form |-> form, action |-> action, terms |-> terms, section |-> section]
NoAnswer == Answer("none", "", NoTerms, NoSection)
Answers ==
    {Answer(f, "", NoTerms, NoSection) : f \in {"error", "nofence", "badyaml", "notdict"}}
    \cup {Answer("dict", "search", tr, NoSection) :
            tr \in {Terms(<<>>), Terms(<<"t1", "t2">>), BadTerms}}
    \cup {Answer("dict", "generate", NoTerms, sec) :
            sec \in {DictSection("s1", TRUE), DictSection("s2", TRUE), DictSection("s2", FALSE),
                     ListSection(<<"s1", "s2">>), ListSection(<<>>), BadSection}}
    \cup {Answer("dict", "complete", NoTerms, NoSection), Answer("dict", "other", NoTerms, NoSection)}

PrepRes(ns, alias, tr, sec, secs) ==
    [names |-> ns, alias |-> alias, terms |-> tr, section |-> sec, sections |-> secs]
NoPrep == PrepRes(<<>>, FALSE, NoTerms, NoSection, <<>>)
ExecRes(ans, items, name, content) ==
    [ans |-> ans, items |-> items, name |-> name, content |-> content]
NoExec == ExecRes(NoAnswer, <<>>, "", "")

\* shared_state as the scripts build it: none of the keys the nodes write.
EmptyCtx ==
    [context |-> <<>>, generated_sections |-> <<>>, search_terms |-> NoTerms,
     current_section |-> NoSection, report |-> [set |-> FALSE, body |-> <<>>],
     target_sections |-> [present |-> FALSE, l |-> <<>>],
     latest_search_results |-> [present |-> FALSE, l |-> <<>>]]

\* No workflow is run.
WfIdle ==
    /\ wf = "none"
    /\ wnode = None
    /\ wpc = "idle"
    /\ ctx = EmptyCtx
    /\ wprep = NoPrep
    /\ wres = NoExec
    /\ names = <<>>
    /\ tsec = <<>>
    /\ queries = 0
    /\ runs = 0
    /\ wresult = "unset"
    /\ resp = ""

\* No wiring statement is followed: the graph is taken as built.
NoBuildLog ==
    /\ warned = <<>>
    /\ regs = <<>>
    /\ berr = FALSE

Graphs == [Nodes -> [RegLabels -> Nodes \cup {None}]]
Dicts == [Keys -> {Absent, "x", "y"}]

IdleTasks ==
    /\ pc = [t \in Tasks |-> "idle"]
    /\ curr = [t \in Tasks |-> NoNode]
    /\ curr_params = [t \in Tasks |-> EmptyDict]
    /\ p = [t \in Tasks |-> EmptyDict]
    /\ cur_retry = [t \in Tasks |-> 0]
    /\ prep_res = [t \in Tasks |-> -1]
    /\ exec_res = [t \in Tasks |-> None]
    /\ last_action = [t \in Tasks |-> None]
    /\ steps = [t \in Tasks |-> 0]
    /\ ev = NoEvents
    /\ prev = [t \in Tasks |-> [id |-> None, action |-> None]]
    /\ hist = <<>>
    /\ appended = [t \in Tasks |-> <<>>]
    /\ fpc = "init"
    /\ pr = <<>>
    /\ bi = 0
    /\ result = "unset"
    /\ gathered = [t \in Tasks |-> "pending"]

\* Node(max_retries, wait), with or without an exec_fallback override.
Profile(mr, w, fb) == [mr |-> mr, w |-> w, fb |-> fb]
AllProfiles == {Profile(mr, w, fb) : mr \in 0..MaxRetries, w \in {0, 1}, fb \in BOOLEAN}
WalkProfiles == {Profile(1, 0, FALSE), Profile(2, 1, TRUE)}
NoSuccessors == [n \in Nodes |-> [l \in RegLabels |-> None]]
FlowDicts == {EmptyDict, [k \in Keys |-> IF k = "k1" THEN "x" ELSE Absent]}
BatchDicts == {[k \in Keys |-> IF k = "k1" THEN "y" ELSE Absent],
               [k \in Keys |-> IF k = "k2" THEN "y" ELSE Absent]}
BatchLists == UNION {[1..n -> BatchDicts] : n \in 0..MaxBatch}
DefaultGraphs == {g \in Graphs : \A n \in Nodes : g[n]["a"] = None}

Configured(cfg) ==
    /\ max_retries = [n \in Nodes |-> cfg[n].mr]
    /\ wait = [n \in Nodes |-> cfg[n].w]
    /\ fb_overridden = [n \in Nodes |-> cfg[n].fb]

\* One node, every retry configuration.
InitRetry ==
    /\ kind = "Flow"
    /\ successors = NoSuccessors
    /\ \E c \in AllProfiles : Configured([n \in Nodes |-> c])
    /\ flow_params = EmptyDict
    /\ prep_ret = [none |-> TRUE, items |-> <<>>]

\* Every graph over Nodes and RegLabels.
InitWalk ==
    /\ kind = "Flow"
    /\ successors \in Graphs
    /\ \E cfg \in [Nodes -> WalkProfiles] : Configured(cfg)
    /\ flow_params \in FlowDicts
    /\ prep_ret = [none |-> TRUE, items |-> <<>>]

\* Batch flows over every list of parameter sets.
InitBatch ==
    /\ kind = "BatchFlow"
    /\ successors \in DefaultGraphs
    /\ \E c \in WalkProfiles : Configured([n \in Nodes |-> c])
    /\ flow_params \in FlowDicts
    /\ prep_ret \in {[none |-> TRUE, items |-> <<>>]}
                      \cup {[none |-> FALSE, items |-> l] : l \in BatchLists}

Init ==
    /\ InitRetry \/ InitWalk \/ InitBatch
    /\ node_params = [n \in Nodes |-> EmptyDict]
    /\ shared = [log |-> <<>>]
    /\ IdleTasks
    /\ NoBuildLog
    /\ WfIdle

Next ==
    \/ FlowRun
    \/ FlowPost
    \/ BatchPrep
    \/ BatchIter
    \/ BatchPost
    \/ NodePrep(MainTask)
    \/ NodeExecNoAttempt(MainTask)
    \/ NodeExecReturn(MainTask)
    \/ NodeExecRaise(MainTask)
    \/ NodeSleep(MainTask)
    \/ NodePost(MainTask)
    \/ OrchAdvance(MainTask)

Spec == Init /\ [][Next]_vars

\* ----------------------- AsyncParallelBatchFlow._run_async (lines 172-176)
\* Mutant: the join ends with the first sub-flow that returns.
gather_done_first == \E t \in 1..Len(pr) : pc[t] = "returned"

\* await asyncio.gather(...) returns when every sub-flow has returned.
gather_done == \A t \in 1..Len(pr) : pc[t] = "returned"

\* pr = await self.prep_async(shared) or []; asyncio.gather(...) creates one task
\* per element of pr.
ParPrep ==
    /\ kind = "AsyncParallelBatchFlow"
    /\ fpc = "init"
    /\ pr' = or_empty(prep_ret)
    /\ fpc' = "gather"
    /\ UNCHANGED <<wfv, prog, node_params, shared, bi, result, gathered, taskv, ghost>>

\* The event loop starts sub-flow t: self._orch_async(shared, {**self.params, **bp}).
\* gather wraps the coroutines in tasks in the order of pr and the loop's ready
\* queue is first in, first out, so the sub-flows take their first step in that
\* order.  The tasks are neither cancelled nor awaited once gather has raised.
ParLaunch(t) ==
    /\ kind = "AsyncParallelBatchFlow"
    /\ fpc \in {"gather", "raised"}
    /\ t <= Len(pr)
    /\ pc[t] = "idle"
    /\ \A u \in 1..(t - 1) : pc[u] # "idle"
    /\ OrchStart(t, BatchArg(pr[t]))
    /\ hist' = Append(hist, Mark("start", t))
    /\ UNCHANGED <<wfv, appended, prog, node_params, shared, flowv>>

\* return await self.post_async(shared, pr, None), and post_async returns exec_res
ParPost ==
    /\ kind = "AsyncParallelBatchFlow"
    /\ fpc = "gather"
    /\ gather_done
    /\ result' = None
    /\ fpc' = "done"
    /\ hist' = Append(hist, Mark("post", 0))
    /\ UNCHANGED <<wfv, appended, prog, node_params, shared, pr, bi, gathered, taskv, ev, prev>>

\* The parameter set of sub-flow i: neighbouring sets differ in the value of k1,
\* and none holds k2, which the flow's own params hold.
ParDict(i) == [k \in Keys |-> IF k = "k1" THEN (IF i % 2 = 0 THEN "x" ELSE "y") ELSE Absent]
ParLists == {[i \in 1..n |-> ParDict(i)] : n \in 0..MaxPar}
AsyncGraphs == {g \in DefaultGraphs : g["A"]["default"] # "A" /\ g["B"]["default"] = None}

InitAsync ==
    /\ kind = "AsyncParallelBatchFlow"
    /\ successors \in AsyncGraphs
    /\ Configured([n \in Nodes |-> Profile(2, 1, FALSE)])
    /\ flow_params = [k \in Keys |-> IF k = "k2" THEN "x" ELSE Absent]
    /\ prep_ret \in {[none |-> TRUE, items |-> <<>>]}
                      \cup {[none |-> FALSE, items |-> l] : l \in ParLists}
    /\ node_params = [n \in Nodes |-> EmptyDict]
    /\ shared = [log |-> <<>>]
    /\ IdleTasks
    /\ NoBuildLog
    /\ WfIdle

NextAsync ==
    \/ ParPrep
    \/ ParPost
    \/ \E t \in Tasks :
        \/ ParLaunch(t)
        \/ NodePrep(t)
        \/ NodeExecReturn(t)
        \/ NodeExecRaise(t)
        \/ NodeSleep(t)
        \/ NodePost(t)
        \/ OrchAdvance(t)

SpecAsync == InitAsync /\ [][NextAsync]_vars

\* ------------------------------------------------------------ properties
Attempts(e) == {i \in 1..Len(e) : e[i].k = "exec"}
Failures(e) == {i \in Attempts(e) : e[i].r # "ok"}
Fallbacks(e) == {i \in 1..Len(e) : e[i].k = "fallback"}
RunNode(e) == e[1].a
InNodeRun(t) == pc[t] \in {"exec", "sleep", "post", "advance"}

\* The successor registered for node n under the label a post returned.
Registered(n, a) ==
    LET l == IF a = None \/ a = "" THEN "default" ELSE a
    IN  IF l \in RegLabels THEN successors[n][l] ELSE None

\* C1: the walk starts at the start node; the node run after a node is the one
\* registered under the label its post returned (None and "" read as "default");
\* the walk has stopped exactly when nothing is registered under that label, and
\* Flow.run returns that last label.
C1_FlowWalk ==
    /\ \A t \in Tasks :
        /\ (pc[t] = "loop" \/ InNodeRun(t)) =>
              /\ curr[t].id # None
              /\ curr[t].id = IF prev[t].id = None THEN StartNode
                               ELSE Registered(prev[t].id, prev[t].action)
        /\ (pc[t] = "loop" /\ prev[t].id # None) => last_action[t] = prev[t].action
        /\ pc[t] = "returned" =>
              /\ prev[t].id # None
              /\ Registered(prev[t].id, prev[t].action) = None
              /\ last_action[t] = prev[t].action
    /\ (kind = "Flow" /\ fpc = "done") =>
          /\ result = prev[MainTask].action
          /\ Registered(prev[MainTask].id, prev[MainTask].action) = None

C1_Witness ==
    /\ kind = "Flow"
    /\ fpc = "done"
    /\ shared.log = <<"A", "B", "A">>
    /\ result = "b"
    /\ successors["A"]["default"] = "B"
    /\ successors["B"]["a"] = "A"

\* C2: in a node run prep comes first and only once, every exec attempt is given
\* the value prep returned, and post comes once, after the last attempt or the
\* fallback, never between attempts.
C2_PhaseOrder ==
    \A t \in Tasks :
        LET e == ev[t] IN
        /\ InNodeRun(t) => Len(e) >= 1
        /\ \A i \in 1..Len(e) :
            /\ (e[i].k = "prep") <=> (i = 1)
            /\ e[i].k = "exec" => e[i].a = e[1].r
            /\ e[i].k = "post" => i = Len(e) /\ e[i - 1].k \in {"prep", "exec", "fallback"}
        /\ pc[t] \in {"exec", "sleep", "post"} => \A i \in 1..Len(e) : e[i].k # "post"
        /\ pc[t] = "advance" => e[Len(e)].k = "post"

C2_Witness ==
    \E t \in Tasks :
        /\ pc[t] = "advance"
        /\ Cardinality(Failures(ev[t])) = 1
        /\ Cardinality(Attempts(ev[t])) = 2
        /\ ev[t][1].r = 2

\* C3: at most max_retries attempts; a returning attempt is the last one and gives
\* the exec result; when all max_retries attempts raised, exec_fallback is called
\* once, with the exception of the last attempt, and not otherwise; a wait follows a
\* failed attempt that is not the last one.
C3_Retry ==
    \A t \in Tasks :
        LET e == ev[t] IN
        Len(e) >= 1 =>
            LET n == RunNode(e) IN
            /\ Cardinality(Attempts(e)) <= max_retries[n]
            /\ \A i \in Attempts(e) :
                 e[i].r = "ok" =>
                    /\ \A j \in Attempts(e) : j <= i
                    /\ IF i = Len(e) THEN pc[t] = "post" /\ exec_res[t] = "v"
                       ELSE e[i + 1].k = "post" /\ e[i + 1].a = "v"
            /\ Cardinality(Fallbacks(e)) <= 1
            /\ \A i \in Fallbacks(e) :
                 /\ Cardinality(Failures(e)) = max_retries[n]
                 /\ e[i - 1].k = "exec"
                 /\ e[i].a = e[i - 1].r
                 /\ \A j \in Attempts(e) : j < i
            /\ (max_retries[n] >= 1 /\ Cardinality(Failures(e)) = max_retries[n]) =>
                 Cardinality(Fallbacks(e)) = 1
            /\ (pc[t] = "post" /\ Cardinality(Failures(e)) = Cardinality(Attempts(e))) =>
                 Cardinality(Fallbacks(e)) = 1 \/ max_retries[n] = 0
            /\ \A i \in 1..Len(e) :
                 e[i].k = "wait" =>
                    /\ wait[n] > 0
                    /\ e[i - 1] .k = "exec" /\ e[i - 1].r # "ok"
                    /\ Cardinality({j \in Failures(e) : j < i}) < max_retries[n]
            /\ pc[t] = "sleep" => Cardinality(Failures(e)) < max_retries[n]

C3_Witness ==
    \E t \in Tasks :
        LET e == ev[t] IN
        /\ Len(e) = 6
        /\ max_retries[RunNode(e)] = 2
        /\ e[3].k = "wait"
        /\ e[2].r = "e1"
        /\ e[4].r = "e2"
        /\ e[5].k = "fallback" /\ e[5].a = "e2"
        /\ e[6].k = "post" /\ e[6].a = "f2"

\* C4: run() raises only from a node whose max_retries attempts all raised and whose
\* exec_fallback is the default one, and always then; that node's post is not
\* invoked, nothing runs afterwards, and the Context is the one the node's prep
\* saw. Otherwise post is given the value of the returning attempt or of the
\* overriding fallback.
C4_AbortState ==
    /\ \A t \in Tasks :
        LET e == ev[t] IN
        /\ pc[t] = "raised" =>
              /\ fpc = "raised"
              /\ ~fb_overridden[RunNode(e)]
              /\ Cardinality(Failures(e)) = max_retries[RunNode(e)]
              /\ Attempts(e) = Failures(e)
              /\ \A i \in 1..Len(e) : e[i].k # "post"
              /\ Len(shared.log) = e[1].r
              /\ kind = "Flow" => Len(shared.log) = steps[t] - 1
              /\ result = "unset"
        /\ (Len(e) >= 1 /\ Cardinality(Failures(e)) = max_retries[RunNode(e)]
              /\ ~fb_overridden[RunNode(e)] /\ max_retries[RunNode(e)] >= 1) =>
              pc[t] = "raised"
        /\ (Len(e) >= 1 /\ Failures(e) # {} /\ pc[t] # "raised") =>
              \/ pc[t] \in {"exec", "sleep"}
                   /\ Cardinality(Failures(e)) < max_retries[RunNode(e)]
              \/ pc[t] = "post" /\ e[Len(e)].k = "exec" /\ e[Len(e)].r = "ok"
                   /\ exec_res[t] = "v"
              \/ pc[t] = "post" /\ e[Len(e)].k = "fallback" /\ fb_overridden[RunNode(e)]
                   /\ exec_res[t] = FbVal(e[Len(e) - 1].r)
              \/ e[Len(e)].k = "post" /\ e[Len(e) - 1].k = "exec" /\ e[Len(e)].a = "v"
              \/ e[Len(e)].k = "post" /\ e[Len(e) - 1].k = "fallback"
                   /\ e[Len(e)].a = FbVal(e[Len(e) - 2].r)
    /\ fpc = "raised" => \E t \in Tasks : pc[t] = "raised"

C4_Abort == [] C4_AbortState /\ [][fpc # "raised"]_vars

C4_Witness ==
    /\ fpc = "raised"
    /\ kind = "Flow"
    /\ shared.log = <<"A">>
    /\ curr[MainTask].id = "B"

\* C6: the params and the successors of the registered nodes never change, and a
\* node run reads the flow's own params, overridden key by key by the parameter
\* set of the current batch iteration.
C6_ParamsState ==
    \A t \in Tasks :
        InNodeRun(t) =>
            \A k \in Keys :
                ParamsOf(t)[k] =
                    IF kind = "BatchFlow" /\ prep_ret.items[bi][k] # Absent
                      THEN prep_ret.items[bi][k]
                      ELSE flow_params[k]

C6_Params ==
    /\ [] C6_ParamsState
    /\ [][node_params' = node_params /\ successors' = successors]_vars

C6_Witness ==
    /\ kind = "BatchFlow"
    /\ bi = 2
    /\ pc[MainTask] = "post"
    /\ steps[MainTask] = 2
    /\ flow_params["k1"] = "x"
    /\ pr[1]["k1"] = "y"
    /\ pr[2]["k2"] = "y"

\* C7: a batch flow starts one orchestration per parameter set, in list order and
\* with that set, each after the previous one has returned; an iteration's first
\* prep sees the Context the previous iteration left; post is invoked once, after
\* the last iteration; with None or an empty list no orchestration is started.
BatchSize == IF prep_ret.none THEN 0 ELSE Len(prep_ret.items)

C7_Batch ==
    kind = "BatchFlow" =>
        /\ Len(hist) <= 2 * BatchSize + 1
        /\ \A j \in 1..Len(hist) :
            /\ hist[j].k = IF j = 2 * BatchSize + 1 THEN "post"
                           ELSE IF j % 2 = 1 THEN "start" ELSE "end"
            /\ hist[j].k # "post" => hist[j].i = (j + 1) \div 2
            /\ j > 1 => hist[j].n >= hist[j - 1].n
            /\ (hist[j].k = "start" /\ j > 1) => hist[j].n = hist[j - 1].n
        /\ fpc = "done" => Len(hist) = 2 * BatchSize + 1 /\ result = None
        /\ \A t \in Tasks :
             InNodeRun(t) =>
                /\ Len(hist) = 2 * bi - 1
                /\ p[t] = Merge(flow_params, prep_ret.items[bi])
                /\ steps[t] = 1 => ev[t][1].r = hist[Len(hist)].n

C7_Witness ==
    /\ kind = "BatchFlow"
    /\ fpc = "done"
    /\ Len(hist) = 5
    /\ hist[2].n = 2
    /\ hist[4].n = 3
    /\ pr[1] # pr[2]

\* The positions of the history entries of kind k for sub-flow i.
Marks(k, i) == {j \in 1..Len(hist) : hist[j].k = k /\ hist[j].i = i}

\* C8: given N parameter sets, a parallel batch flow starts sub-flows 1..N and no
\* other, each once; post_async is invoked only when each of the N has returned,
\* and then gather holds N results, the i-th being the label sub-flow i returned,
\* whatever the order the sub-flows returned in; every node run of every sub-flow
\* is in the Context post_async is given.
C8_ParallelJoin ==
    kind = "AsyncParallelBatchFlow" =>
        /\ \A j \in 1..Len(hist) : hist[j].k \in {"start", "end"} => hist[j].i \in 1..BatchSize
        /\ \A i \in Tasks :
            /\ Cardinality(Marks("start", i)) <= 1
            /\ Cardinality(Marks("end", i)) <= 1
            /\ \A j \in Marks("end", i) : \E s \in Marks("start", i) : s < j
            /\ (gathered[i] # "pending") <=> (Marks("end", i) # {})
        /\ Cardinality(Marks("post", 0)) <= 1
        /\ (fpc = "done") <=> (Marks("post", 0) # {})
        /\ fpc = "done" =>
            /\ hist[Len(hist)].k = "post"
            /\ hist[Len(hist)].n = SumSteps(MaxPar)
            /\ result = None
            /\ \A i \in 1..BatchSize :
                /\ Cardinality(Marks("start", i)) = 1
                /\ Cardinality(Marks("end", i)) = 1
                /\ pc[i] = "returned"
                /\ gathered[i] = prev[i].action
                /\ p[i] = Merge(flow_params, prep_ret.items[i])
            /\ Cardinality({i \in Tasks : gathered[i] # "pending"}) = BatchSize

C8_Witness ==
    /\ kind = "AsyncParallelBatchFlow"
    /\ fpc = "done"
    /\ BatchSize = 2
    /\ \E j \in Marks("end", 2) : \E l \in Marks("end", 1) : j < l
    /\ gathered[1] = None
    /\ gathered[2] = "b"
    /\ steps[1] = 2

\* C9: on the chain an _orch_async walks, the phases of a node run come in the order
\* prep, exec attempts (a sleep only between two of them), post, and the chain moves
\* on to the next node, or returns, only from a node run whose post has returned;
\* the steps other tasks take in between change none of this.
C9_RunState ==
    \A t \in Tasks :
        LET e == ev[t] IN
        /\ (pc[t] \in {"idle", "loop", "returned"}) => e = <<>>
        /\ InNodeRun(t) =>
            /\ Len(e) >= 1
            /\ e[1].k = "prep" /\ e[1].a = curr[t].id
            /\ \A i \in 2..Len(e) :
                /\ e[i].k \in {"exec", "wait", "post"}
                /\ e[i].k = "wait" =>
                      /\ e[i - 1].k = "exec"
                      /\ IF i < Len(e) THEN e[i + 1].k = "exec" ELSE pc[t] = "exec"
                /\ e[i].k = "post" => i = Len(e) /\ e[i - 1].k = "exec"

C9_Step ==
    \A t \in Tasks :
        /\ (InNodeRun(t) /\ pc'[t] \in {"loop", "returned"}) =>
              /\ ev[t][Len(ev[t])].k = "post"
              /\ shared.log # <<>>
              /\ \E j \in 1..Len(shared.log) : shared.log[j] = curr[t].id
        /\ (ev'[t] # ev[t] /\ Len(ev'[t]) = 1) => pc[t] = "loop" /\ ev[t] = <<>>

C9_Sequential == [] C9_RunState /\ [][C9_Step]_vars

C9_Witness ==
    \E t \in Tasks : \E u \in Tasks \ {t} :
        /\ prev[t].id = "A"
        /\ curr[t].id = "B"
        /\ pc[t] = "advance"
        /\ \E i \in 1..Len(ev[t]) : ev[t][i].k = "wait"
        /\ pc[u] = "sleep"

\* ------------------------------------------- decision-loop workflow scripts
\* industry_workflow.py, macro_workflow_postgres.py and macro_workflow.py: four
\* nodes built with the Node defaults (max_retries = 1, wait = 0, exec_fallback not
\* overridden), so an exec that raises aborts flow.run at once.
WfNodes == {"research", "search", "generate", "complete"}

\* research - "search" >> search ... generate - "continue" >> research
WfSuccessors(n, label) ==
    IF n = "research" /\ label \in {"search", "generate", "complete"} THEN label
    ELSE IF n = "search" /\ label = "search_done" THEN "research"
    ELSE IF n = "generate" /\ label = "continue" THEN "research"
    ELSE None

\* run_marco_research_report.py, lines 650-676: six nodes, the walk starts at
\* keyword_gen.
MarcoNodes == {"keyword_gen", "searcher", "summarizer", "macro_flow", "generator", "completer"}

MarcoSuccessors(n, label) ==
    IF n = "keyword_gen" /\ label = "search_ready" THEN "searcher"
    ELSE IF n = "searcher" /\ label = "search_done" THEN "summarizer"
    ELSE IF n = "summarizer" /\ label = "summary_done" THEN "macro_flow"
    ELSE IF n = "macro_flow" /\ label = "search" THEN "searcher"
    ELSE IF n = "macro_flow" /\ label = "generate" THEN "generator"
    ELSE IF n = "generator" /\ label = "continue" THEN "macro_flow"
    ELSE IF n = "macro_flow" /\ label = "complete" THEN "completer"
    ELSE None

\* Flow.get_next_node on the wiring of the scripts.
wf_next(n, action) ==
    IF wf = "marco" THEN MarcoSuccessors(n, OrDefault(action))
    ELSE WfSuccessors(n, OrDefault(action))

\* What CompleteReport.post of industry_workflow returns: the report text.
ReportText == "report"

\* What call_llm gives GenerateSection: some text, or "" when the call failed.
Contents == {"c", ""}

\* What search_web returns for a term: a list with results, or an empty one.
Results == {"hits", "nohits"}

In(x, l) == \E i \in 1..Len(l) : l[i] = x

\* Mutant: no names are read from the produced sections.
section_names_none(sections) == <<>>

\* [s.get('name', '') for s in generated_sections]
section_names(sections) == [i \in 1..Len(sections) |-> sections[i].name]

\* result.get('search_terms', [])
terms_get(tr) == IF tr.t = "none" THEN Terms(<<>>) ELSE tr

\* isinstance(section, dict) and 'name' in section
has_name(sec) == sec.t = "dict"

\* for s in section: ... s['name'] not in generated_names: the first such name
FirstNew(l, gen) ==
    LET new == {i \in 1..Len(l) : ~In(l[i], gen)}
    IN  IF new = {} THEN ""
        ELSE l[CHOOSE i \in new : \A j \in new : i <= j]

\* Mutant: the sections are put into the report from the newest to the oldest.
RECURSIVE Assemble_newest_first(_)
Assemble_newest_first(sections) ==
    IF sections = <<>> THEN <<"title">>
    ELSE <<"title", sections[Len(sections)].name, sections[Len(sections)].content>>
           \o Tail(Assemble_newest_first(SubSeq(sections, 1, Len(sections) - 1)))

\* content = "# ...研究报告" + "## name  content" for each section, in list order
RECURSIVE Assemble(_)
Assemble(sections) ==
    IF sections = <<>> THEN <<"title">>
    ELSE Assemble(SubSeq(sections, 1, Len(sections) - 1))
           \o <<sections[Len(sections)].name, sections[Len(sections)].content>>

\* Mutant: the Controller object has an attribute named shared.
has_shared_attr_set == TRUE

\* hasattr(self, 'shared'): nothing ever sets the attribute
has_shared_attr == FALSE

\* result = {"action": "complete", "reason": ...}
DefaultComplete == Answer("dict", "complete", NoTerms, NoSection)

\* Oracle calls counted in one exec; the code keeps no count, the model stops
\* telling the calls apart after MaxQueries.
count_query(q) == IF q < MaxQueries THEN q + 1 ELSE q

\* Mutant: the parse is not inside a try.
industry_parse_unguarded(ans) == ans

\* call_llm returns "" when the call fails; resp.split("```yaml")[1] and
\* yaml.safe_load sit in a try whose except gives the default result.
industry_parse(ans) ==
    IF ans.form \in {"error", "nofence", "badyaml"} THEN DefaultComplete ELSE ans

\* Flow._orch after the node's post returned label: the next node, or the walk
\* ends and flow.run returns label.  The frames of the node run are gone.
WfAdvance(label) ==
    LET nxt == wf_next(wnode, label)
    IN  /\ wnode' = nxt
        /\ wpc' = IF nxt = None THEN "done" ELSE "prep"
        /\ wresult' = IF nxt = None THEN label ELSE wresult
        /\ wprep' = NoPrep
        /\ wres' = NoExec
        /\ names' = <<>>
        /\ tsec' = <<>>
        /\ queries' = 0
        /\ resp' = ""

\* A node run starts: Flow._orch calls curr._run(shared), which calls prep.
WfAt(n, phase) ==
    /\ wnode = n
    /\ wpc = phase
    /\ phase = "prep" => runs < MaxWfRuns

\* ---- IndustryResearchFlow (the Controller), industry_workflow.py lines 47-172
\* prep: reads the Context; exec starts with the names prep collected (the prep of
\* macro_workflow.py, lines 16-21, collects no names).  In
\* macro_workflow_postgres.py prep also hands over shared.get('target_sections', []):
\* the Context's own list when the key is present, a new list otherwise.
ControllerPrep ==
    /\ WfAt("research", "prep")
    /\ wprep' = PrepRes(IF wf = "macro" THEN <<>> ELSE section_names(ctx.generated_sections),
                        wf = "postgres" /\ ctx.target_sections.present,
                        NoTerms, NoSection, <<>>)
    /\ names' = IF wf = "macro" THEN <<>> ELSE section_names(ctx.generated_sections)
    /\ tsec' = IF wf = "postgres" THEN ctx.target_sections.l ELSE <<>>
    /\ queries' = 0
    /\ runs' = runs + 1
    /\ wpc' = "exec"
    /\ UNCHANGED <<engine, wf, resp, wnode, ctx, wres, wresult>>

\* exec, one turn of its while True loop: ask the Oracle, parse, decide.
ControllerQuery ==
    /\ wf = "industry"
    /\ WfAt("research", "exec")
    /\ \E ans \in Answers :
        LET res == industry_parse(ans)
            sec == res.section
        IN  /\ wres' = ExecRes(res, <<>>, "", "")
            /\ resp' = ans.form
            /\ IF res.form # "dict"
                 \* result['action'] raises outside the try
                 THEN wpc' = "raised" /\ UNCHANGED names
                 ELSE IF res.action = "generate" /\ has_name(sec) /\ In(sec.name, names)
                 \* already generated: refresh the names from shared and ask again
                 THEN names' = section_names(ctx.generated_sections) /\ UNCHANGED wpc
                 ELSE IF res.action \in {"search", "generate", "complete"}
                 THEN wpc' = "post" /\ UNCHANGED names
                 \* no branch matches: the loop goes round
                 ELSE UNCHANGED <<wpc, names>>
    /\ queries' = count_query(queries)
    /\ UNCHANGED <<engine, wf, wnode, ctx, wprep, tsec, runs, wresult>>

\* post: record the search terms or the section to write, return the label.
ControllerPost ==
    /\ wf = "industry"
    /\ WfAt("research", "post")
    /\ LET res == wres.ans
           sec == res.section
           gen == section_names(ctx.generated_sections)
       IN  IF res.action = "search"
             THEN IF terms_get(res.terms).t = "list"
                    THEN /\ ctx' = [ctx EXCEPT !.search_terms = terms_get(res.terms)]
                         /\ WfAdvance("search")
                    ELSE UNCHANGED ctx /\ WfAdvance("complete")
           ELSE IF res.action = "generate"
             THEN IF has_name(sec)
                    THEN /\ ctx' = [ctx EXCEPT !.current_section = sec]
                         /\ WfAdvance("generate")
                  ELSE IF sec.t = "list" /\ Len(sec.names) > 0 /\ FirstNew(sec.names, gen) # ""
                    THEN /\ ctx' = [ctx EXCEPT !.current_section =
                                                   DictSection(FirstNew(sec.names, gen), TRUE)]
                         /\ WfAdvance("generate")
                  ELSE UNCHANGED ctx /\ WfAdvance("complete")
           ELSE UNCHANGED ctx /\ WfAdvance(res.action)
    /\ UNCHANGED <<engine, wf, runs>>

\* ---- IndustryResearchFlow of macro_workflow_postgres.py, lines 49-187
\* exec, one turn of the loop: no try around the parse; a named section is added to
\* target_sections (in place, so to the Context's list when prep handed that over);
\* after the loop the prints index the result, and shared is written only when the
\* object has an attribute of that name.
PgControllerQuery ==
    /\ wf = "postgres"
    /\ WfAt("research", "exec")
    /\ \E ans \in {a \in Answers : a.form # "error"} :
        LET sec == ans.section
            named == ans.form = "dict" /\ ans.action = "generate" /\ has_name(sec)
            tsec2 == IF named /\ ~In(sec.name, tsec) THEN Append(tsec, sec.name) ELSE tsec
            ctx2 == IF wprep.alias THEN [ctx EXCEPT !.target_sections.l = tsec2] ELSE ctx
        IN  /\ wres' = ExecRes(ans, <<>>, "", "")
            /\ resp' = ans.form
            /\ IF ans.form # "dict"
                 THEN wpc' = "raised" /\ UNCHANGED <<tsec, ctx>>
                 ELSE IF named /\ In(sec.name, names)
                 THEN tsec' = tsec2 /\ ctx' = ctx2 /\ UNCHANGED wpc
                 ELSE IF ans.action = "generate" /\ ~has_name(sec)
                 \* print(result['section']['name']) raises
                 THEN wpc' = "raised" /\ tsec' = tsec2 /\ ctx' = ctx2
                 ELSE /\ tsec' = tsec2
                      /\ ctx' = IF has_shared_attr
                                  THEN [ctx2 EXCEPT !.target_sections = [present |-> TRUE, l |-> tsec2]]
                                  ELSE ctx2
                      /\ wpc' = "post"
    /\ queries' = count_query(queries)
    /\ UNCHANGED <<engine, wf, wnode, wprep, names, runs, wresult>>

PgControllerPost ==
    /\ wf = "postgres"
    /\ WfAt("research", "post")
    /\ LET res == wres.ans
           sec == res.section
           gen == section_names(ctx.generated_sections)
           target == ctx.target_sections.l
       IN  IF target # <<>> /\ \A i \in 1..Len(target) : In(target[i], gen)
             THEN UNCHANGED ctx /\ WfAdvance("complete")
           ELSE IF res.action = "search"
             THEN /\ ctx' = [ctx EXCEPT !.search_terms = terms_get(res.terms)]
                  /\ WfAdvance("search")
           ELSE IF res.action = "generate"
             THEN IF has_name(sec)
                    THEN IF In(sec.name, gen)
                           THEN UNCHANGED ctx /\ WfAdvance("continue")
                           ELSE /\ ctx' = [ctx EXCEPT !.current_section = sec]
                                /\ WfAdvance("generate")
                    ELSE UNCHANGED ctx /\ WfAdvance("complete")
           ELSE UNCHANGED ctx /\ WfAdvance(res.action)
    /\ UNCHANGED <<engine, wf, runs>>

\* ---- IndustryResearchFlow of macro_workflow.py, lines 15-77
\* exec: one Oracle call, no loop, no try, no look at the sections produced so far;
\* call_llm lets the exception of a failed call through, the split and safe_load
\* raise on a response they cannot read, and the prints index the result.
McControllerExec ==
    /\ wf = "macro"
    /\ WfAt("research", "exec")
    /\ \E ans \in Answers :
        /\ wres' = ExecRes(ans, <<>>, "", "")
        /\ resp' = ans.form
        /\ wpc' = IF ans.form # "dict" \/ (ans.action = "generate" /\ ~has_name(ans.section))
                    THEN "raised"
                    ELSE "post"
    /\ queries' = count_query(queries)
    /\ UNCHANGED <<engine, wf, wnode, ctx, wprep, names, tsec, runs, wresult>>

\* post: stores the terms or the section as they are and returns the action as it is.
McControllerPost ==
    /\ wf = "macro"
    /\ WfAt("research", "post")
    /\ LET res == wres.ans
       IN  /\ ctx' = IF res.action = "search"
                       THEN [ctx EXCEPT !.search_terms = terms_get(res.terms)]
                     ELSE IF res.action = "generate"
                       THEN [ctx EXCEPT !.current_section = res.section]
                     ELSE ctx
           /\ WfAdvance(res.action)
    /\ UNCHANGED <<engine, wf, runs>>

\* ---- SearchInfo, industry_workflow.py lines 174-194 (postgres: 189-225,
\* macro_workflow.py: 79-99)
SearchPrep ==
    /\ WfAt("search", "prep")
    /\ wprep' = PrepRes(<<>>, FALSE, terms_get(ctx.search_terms), NoSection, <<>>)
    /\ runs' = runs + 1
    /\ wpc' = "exec"
    /\ UNCHANGED <<engine, wf, resp, wnode, ctx, wres, names, tsec, queries, wresult>>

\* Mutant: the loop takes the terms from the last one to the first.
next_term_backwards(terms, done) == terms[Len(terms) - Len(done)]

\* for i, term in enumerate(search_terms, 1): the term of the next turn
next_term(terms, done) == terms[Len(done) + 1]

\* exec, one turn of its for loop: search_web(term), then the entry {"term",
\* "results"} is appended to all_results; after the last term all_results is
\* returned.  search_web of macro_workflow.py (203-206) has no try around the
\* Retriever; SearchEngine.search, which the other two scripts call, logs a failed
\* engine and returns what it has.
SearchExec ==
    /\ WfAt("search", "exec")
    /\ IF Len(wres.items) = Len(wprep.terms.l)
         THEN wpc' = "post" /\ UNCHANGED wres
         ELSE \E r \in Results \cup {x \in {"raise"} : wf = "macro"} :
                IF r = "raise"
                  THEN wpc' = "raised" /\ UNCHANGED wres
                  ELSE /\ wres' = [wres EXCEPT !.items =
                                      Append(@, [term |-> next_term(wprep.terms.l, wres.items),
                                                 results |-> r])]
                       /\ UNCHANGED wpc
    /\ UNCHANGED <<engine, wf, resp, wnode, ctx, wprep, names, tsec, queries, runs, wresult>>

\* Mutant: an entry whose results are empty is not put into the list.
context_extend_nonempty(l, items) == l \o SelectSeq(items, LAMBDA x : x.results # "nohits")

\* Mutant: the entries of this step take the place of the list.
context_replace(l, items) == items

\* context_list.extend(exec_res)
context_extend(l, items) == l \o items

\* post: context_list.extend(exec_res); shared["context"] = context_list
SearchPost ==
    /\ WfAt("search", "post")
    /\ ctx' = [ctx EXCEPT !.context = context_extend(@, wres.items)]
    /\ WfAdvance("search_done")
    /\ UNCHANGED <<engine, wf, runs>>

\* ---- GenerateSection, industry_workflow.py lines 196-249
GeneratePrep ==
    /\ WfAt("generate", "prep")
    /\ wprep' = PrepRes(<<>>, FALSE, NoTerms, ctx.current_section, <<>>)
    /\ runs' = runs + 1
    /\ wpc' = "exec"
    /\ UNCHANGED <<engine, wf, resp, wnode, ctx, wres, names, tsec, queries, wresult>>

\* exec: a section that is not a dict with a name gives the error section
GenerateExec ==
    /\ wf = "industry"
    /\ WfAt("generate", "exec")
    /\ \E c \in Contents :
        wres' = IF has_name(wprep.section)
                  THEN ExecRes(NoAnswer, <<>>, wprep.section.name, c)
                  ELSE ExecRes(NoAnswer, <<>>, ErrName, "format")
    /\ wpc' = "post"
    /\ UNCHANGED <<engine, wf, resp, wnode, ctx, wprep, names, tsec, queries, runs, wresult>>

\* post: a name that is already in generated_sections is not appended again
GeneratePost ==
    /\ wf = "industry"
    /\ WfAt("generate", "post")
    /\ ctx' = IF In(wres.name, section_names(ctx.generated_sections))
                THEN ctx
                ELSE [ctx EXCEPT !.generated_sections =
                                    Append(@, [name |-> wres.name, content |-> wres.content])]
    /\ WfAdvance("continue")
    /\ UNCHANGED <<engine, wf, runs>>

\* ---- GenerateSection of macro_workflow_postgres.py, lines 227-306
\* exec reads section['name'] and section['focus'] unguarded
PgGenerateExec ==
    /\ wf = "postgres"
    /\ WfAt("generate", "exec")
    /\ IF has_name(wprep.section) /\ wprep.section.focus
         THEN /\ \E c \in Contents : wres' = ExecRes(NoAnswer, <<>>, wprep.section.name, c)
              /\ wpc' = "post"
         ELSE wpc' = "raised" /\ UNCHANGED wres
    /\ UNCHANGED <<engine, wf, resp, wnode, ctx, wprep, names, tsec, queries, runs, wresult>>

\* post: sections.append(exec_res); shared["generated_sections"] = sections
PgGeneratePost ==
    /\ wf = "postgres"
    /\ WfAt("generate", "post")
    /\ ctx' = [ctx EXCEPT !.generated_sections =
                             Append(@, [name |-> wres.name, content |-> wres.content])]
    /\ WfAdvance("continue")
    /\ UNCHANGED <<engine, wf, runs>>

\* ---- GenerateSection of macro_workflow.py, lines 101-170
\* exec reads section['name'] and section['focus'] unguarded and asks the Oracle
\* through the call_llm that has no try
McGenerateExec ==
    /\ wf = "macro"
    /\ WfAt("generate", "exec")
    /\ IF has_name(wprep.section) /\ wprep.section.focus
         THEN \E c \in Contents \cup {"raise"} :
                IF c = "raise"
                  THEN wpc' = "raised" /\ UNCHANGED wres
                  ELSE /\ wres' = ExecRes(NoAnswer, <<>>, wprep.section.name, c)
                       /\ wpc' = "post"
         ELSE wpc' = "raised" /\ UNCHANGED wres
    /\ UNCHANGED <<engine, wf, resp, wnode, ctx, wprep, names, tsec, queries, runs, wresult>>

\* post: sections.append(exec_res); shared["generated_sections"] = sections
McGeneratePost ==
    /\ wf = "macro"
    /\ WfAt("generate", "post")
    /\ ctx' = [ctx EXCEPT !.generated_sections =
                             Append(@, [name |-> wres.name, content |-> wres.content])]
    /\ WfAdvance("continue")
    /\ UNCHANGED <<engine, wf, runs>>

\* ---- CompleteReport, industry_workflow.py lines 251-271 (postgres: 308-335,
\* macro_workflow.py: 172-193)
CompletePrep ==
    /\ WfAt("complete", "prep")
    /\ wprep' = PrepRes(<<>>, FALSE, NoTerms, NoSection, ctx.generated_sections)
    /\ runs' = runs + 1
    /\ wpc' = "exec"
    /\ UNCHANGED <<engine, wf, resp, wnode, ctx, wres, names, tsec, queries, wresult>>

CompleteExec ==
    /\ WfAt("complete", "exec")
    /\ wres' = ExecRes(NoAnswer, Assemble(wprep.sections), "", "")
    /\ wpc' = "post"
    /\ UNCHANGED <<engine, wf, resp, wnode, ctx, wprep, names, tsec, queries, runs, wresult>>

\* post: shared["report"] = exec_res; return exec_res
CompletePost ==
    /\ wf = "industry"
    /\ WfAt("complete", "post")
    /\ ctx' = [ctx EXCEPT !.report = [set |-> TRUE, body |-> wres.items]]
    /\ WfAdvance(ReportText)
    /\ UNCHANGED <<engine, wf, runs>>

\* post of macro_workflow_postgres.py: shared["report"] = exec_res; return None
PgCompletePost ==
    /\ wf = "postgres"
    /\ WfAt("complete", "post")
    /\ ctx' = [ctx EXCEPT !.report = [set |-> TRUE, body |-> wres.items]]
    /\ WfAdvance(None)
    /\ UNCHANGED <<engine, wf, runs>>

\* post of macro_workflow.py: shared["report"] = exec_res; return None
McCompletePost ==
    /\ wf = "macro"
    /\ WfAt("complete", "post")
    /\ ctx' = [ctx EXCEPT !.report = [set |-> TRUE, body |-> wres.items]]
    /\ WfAdvance(None)
    /\ UNCHANGED <<engine, wf, runs>>

\* No engine object of the model above is run.
EngineIdle ==
    /\ kind = "none"
    /\ successors = NoSuccessors
    /\ Configured([n \in Nodes |-> Profile(1, 0, FALSE)])
    /\ flow_params = EmptyDict
    /\ prep_ret = [none |-> TRUE, items |-> <<>>]
    /\ node_params = [n \in Nodes |-> EmptyDict]
    /\ shared = [log |-> <<>>]
    /\ IdleTasks
    /\ NoBuildLog

\* flow = Flow(start=research); flow.run(shared_state)
InitWorkflow ==
    /\ EngineIdle
    /\ wf \in {"industry", "postgres", "macro"}
    /\ wnode = "research"
    /\ wpc = "prep"
    /\ ctx = EmptyCtx
    /\ wprep = NoPrep
    /\ wres = NoExec
    /\ names = <<>>
    /\ tsec = <<>>
    /\ queries = 0
    /\ runs = 0
    /\ wresult = "unset"
    /\ resp = ""

NextWorkflow ==
    \/ ControllerPrep
    \/ ControllerQuery
    \/ ControllerPost
    \/ PgControllerQuery
    \/ PgControllerPost
    \/ McControllerExec
    \/ McControllerPost
    \/ SearchPrep
    \/ SearchExec
    \/ SearchPost
    \/ GeneratePrep
    \/ GenerateExec
    \/ GeneratePost
    \/ PgGenerateExec
    \/ PgGeneratePost
    \/ McGenerateExec
    \/ McGeneratePost
    \/ CompletePrep
    \/ CompleteExec
    \/ CompletePost
    \/ PgCompletePost
    \/ McCompletePost

SpecWorkflow == InitWorkflow /\ [][NextWorkflow]_vars

\* flow.run is one thread that runs on until the walk ends or an exception leaves
\* it: a step that can be taken is taken.
SpecWorkflowFair == SpecWorkflow /\ WF_vars(NextWorkflow)

\* -------------------------------------------- run_marco_research_report.py
\* The cap on produced sections: max_sections = 6.
max_sections == 6

\* What the keyword generator's exec returns: the list the Oracle gave, or the
\* default list when the answer cannot be read.
Keywords == {Terms(<<"t1", "t2">>), Terms(<<"t1">>)}

\* context_list.append(...): the model records the first MaxContext entries.
context_append(l, x) == IF Len(l) < MaxContext THEN Append(l, x) ELSE l

\* A node run of run_marco_research_report at the given phase.
MrAt(n, phase) ==
    /\ wf = "marco"
    /\ wnode = n
    /\ wpc = phase

\* content = title, summary, table of contents, then for each section its title
\* and content, in list order, then the conclusion (the title of a section is its
\* name with a number in front)
RECURSIVE MarcoBody(_)
MarcoBody(sections) ==
    IF sections = <<>> THEN <<>>
    ELSE MarcoBody(SubSeq(sections, 1, Len(sections) - 1))
           \o <<sections[Len(sections)].name, sections[Len(sections)].content>>

MarcoAssemble(sections) ==
    <<"title", "summary">> \o section_names(sections) \o MarcoBody(sections) \o <<"conclusion">>

\* ---- SearchKeywordsGenerator, lines 263-326
MrKeywordPrep ==
    /\ MrAt("keyword_gen", "prep")
    /\ wprep' = NoPrep
    /\ wpc' = "exec"
    /\ UNCHANGED <<engine, wf, resp, wnode, ctx, wres, names, tsec, queries, runs, wresult>>

\* exec: the list literal_eval reads, the list in a code block, or the default
\* list; when the answer holds a ``` but no complete block, keywords is never bound
\* and `if not keywords` raises.
MrKeywordExec ==
    /\ MrAt("keyword_gen", "exec")
    /\ \/ \E k \in Keywords :
            /\ wres' = [NoExec EXCEPT !.ans.terms = k]
            /\ wpc' = "post"
       \/ wpc' = "raised" /\ UNCHANGED wres
    /\ UNCHANGED <<engine, wf, resp, wnode, ctx, wprep, names, tsec, queries, runs, wresult>>

MrKeywordPost ==
    /\ MrAt("keyword_gen", "post")
    /\ ctx' = [ctx EXCEPT !.search_terms = wres.ans.terms]
    /\ WfAdvance("search_ready")
    /\ UNCHANGED <<engine, wf, runs>>

\* ---- WebSearcher, lines 329-356
MrSearchPrep ==
    /\ MrAt("searcher", "prep")
    /\ wprep' = PrepRes(<<>>, FALSE, terms_get(ctx.search_terms), NoSection, <<>>)
    /\ wpc' = "exec"
    /\ UNCHANGED <<engine, wf, resp, wnode, ctx, wres, names, tsec, queries, runs, wresult>>

\* exec, one turn of its for loop; search_web (86-98) returns [] when the
\* Retriever raises
MrSearchExec ==
    /\ MrAt("searcher", "exec")
    /\ IF Len(wres.items) = Len(wprep.terms.l)
         THEN wpc' = "post" /\ UNCHANGED wres
         ELSE \E r \in Results :
                /\ wres' = [wres EXCEPT !.items =
                               Append(@, [term |-> next_term(wprep.terms.l, wres.items),
                                          results |-> r])]
                /\ UNCHANGED wpc
    /\ UNCHANGED <<engine, wf, resp, wnode, ctx, wprep, names, tsec, queries, runs, wresult>>

\* post: shared["latest_search_results"] = exec_res
MrSearchPost ==
    /\ MrAt("searcher", "post")
    /\ ctx' = [ctx EXCEPT !.latest_search_results = [present |-> TRUE, l |-> wres.items]]
    /\ WfAdvance("search_done")
    /\ UNCHANGED <<engine, wf, runs>>

\* ---- ContextSummarizer, lines 359-402
MrSummaryPrep ==
    /\ MrAt("summarizer", "prep")
    /\ wprep' = PrepRes(<<>>, FALSE, NoTerms, NoSection, ctx.latest_search_results.l)
    /\ wpc' = "exec"
    /\ UNCHANGED <<engine, wf, resp, wnode, ctx, wres, names, tsec, queries, runs, wresult>>

\* exec: a fixed text when there is nothing to summarise, else what call_llm gives
\* (its error text when the call fails)
MrSummaryExec ==
    /\ MrAt("summarizer", "exec")
    /\ wres' = ExecRes(NoAnswer, <<>>, "",
                       IF wprep.sections = <<>> THEN "nothing" ELSE "summary")
    /\ wpc' = "post"
    /\ UNCHANGED <<engine, wf, resp, wnode, ctx, wprep, names, tsec, queries, runs, wresult>>

\* post: the summary is appended to the context, latest_search_results is deleted
MrSummaryPost ==
    /\ MrAt("summarizer", "post")
    /\ ctx' = [ctx EXCEPT
                 !.context = context_append(@, [term |-> "summary_from_search",
                                                results |-> wres.content]),
                 !.latest_search_results = [present |-> FALSE, l |-> <<>>]]
    /\ WfAdvance("summary_done")
    /\ UNCHANGED <<engine, wf, runs>>

\* ---- MacroResearchFlow (the Controller), lines 145-260
MrControllerPrep ==
    /\ MrAt("macro_flow", "prep")
    /\ wprep' = PrepRes(<<>>, FALSE, NoTerms, NoSection, ctx.generated_sections)
    /\ names' = section_names(ctx.generated_sections)
    /\ queries' = 0
    /\ wpc' = "exec"
    /\ UNCHANGED <<engine, wf, resp, wnode, ctx, wres, tsec, runs, wresult>>

\* standard_section_types (line 168)
standard_section_types == {"macro", "policy", "industry", "risk"}

\* The keyword tests of lines 171-180 on a section name: a name may hold the
\* keywords of several types ("s1" those of two types, "s2" those of a third).
section_types(name) ==
    IF name = "s1" THEN {"macro", "policy"}
    ELSE IF name = "s2" THEN {"industry"}
    ELSE {}

\* covered_types = list(set(covered_types))
covered_types(sections) == UNION {section_types(sections[i].name) : i \in 1..Len(sections)}

\* coverage_ratio >= 0.75, with coverage_ratio = len(covered_types) / len(standard_section_types)
coverage_reached(sections) ==
    4 * Cardinality(covered_types(sections)) >= 3 * Cardinality(standard_section_types)

\* The decision made ahead of the Oracle call (lines 186-193); it goes into the prompt.
predecision(sections) ==
    IF Len(sections) >= max_sections THEN "complete"
    ELSE IF coverage_reached(sections) THEN "complete"
    ELSE None

\* Mutant: the answer is overridden whenever the decision made ahead is "complete".
forces_complete_on_coverage(pre, action, section_count) ==
    pre = "complete" /\ action = "generate"

\* if predecision == "complete" and result["action"] == "generate"
\*    and section_count >= max_sections (line 243)
forces_complete(pre, action, section_count) ==
    pre = "complete" /\ action = "generate" /\ section_count >= max_sections

\* exec: one Oracle call.  A response without a fence is parsed as it is, and a
\* text is then not a mapping; neither safe_load nor the prints are in a try.  The
\* action is turned into "complete" only when it is "generate" and the number of
\* sections has reached max_sections (line 243); the section of the answer stays.
MrControllerExec ==
    /\ MrAt("macro_flow", "exec")
    /\ \E ans \in Answers :
        LET section_count == Len(wprep.sections)
            forced == forces_complete(predecision(wprep.sections), ans.action, section_count)
        IN  /\ resp' = ans.form
            /\ IF ans.form # "dict" \/ (ans.action = "generate" /\ ~has_name(ans.section))
                 THEN wpc' = "raised" /\ wres' = ExecRes(ans, <<>>, "", "")
                 ELSE /\ wres' = ExecRes(IF forced THEN [ans EXCEPT !.action = "complete"] ELSE ans,
                                         <<>>, "", "")
                      /\ wpc' = "post"
    /\ queries' = count_query(queries)
    /\ UNCHANGED <<engine, wf, wnode, ctx, wprep, names, tsec, runs, wresult>>

\* post: stores the terms or the section and returns the action as it is.
MrControllerPost ==
    /\ MrAt("macro_flow", "post")
    /\ LET res == wres.ans
       IN  /\ ctx' = IF res.action = "search"
                       THEN [ctx EXCEPT !.search_terms = terms_get(res.terms)]
                     ELSE IF res.action = "generate"
                       THEN [ctx EXCEPT !.current_section = res.section]
                     ELSE ctx
           /\ WfAdvance(res.action)
    /\ UNCHANGED <<engine, wf, runs>>

\* ---- SectionGenerator, lines 405-531
MrGeneratePrep ==
    /\ MrAt("generator", "prep")
    /\ wprep' = PrepRes(<<>>, FALSE, NoTerms, ctx.current_section, ctx.generated_sections)
    /\ wpc' = "exec"
    /\ UNCHANGED <<engine, wf, resp, wnode, ctx, wres, names, tsec, queries, runs, wresult>>

\* exec reads section['name'] and section['focus'] unguarded; the section's text is
\* what call_llm gives
MrGenerateExec ==
    /\ MrAt("generator", "exec")
    /\ IF has_name(wprep.section) /\ wprep.section.focus
         THEN /\ wres' = ExecRes(NoAnswer, <<>>, wprep.section.name, "c")
              /\ wpc' = "post"
         ELSE wpc' = "raised" /\ UNCHANGED wres
    /\ UNCHANGED <<engine, wf, resp, wnode, ctx, wprep, names, tsec, queries, runs, wresult>>

\* post: sections.append(exec_res); shared["generated_sections"] = sections
MrGeneratePost ==
    /\ MrAt("generator", "post")
    /\ ctx' = [ctx EXCEPT !.generated_sections =
                             Append(@, [name |-> wres.name, content |-> wres.content])]
    /\ WfAdvance("continue")
    /\ UNCHANGED <<engine, wf, runs>>

\* ---- ReportCompleter, lines 534-636
MrCompletePrep ==
    /\ MrAt("completer", "prep")
    /\ wprep' = PrepRes(<<>>, FALSE, NoTerms, NoSection, ctx.generated_sections)
    /\ wpc' = "exec"
    /\ UNCHANGED <<engine, wf, resp, wnode, ctx, wres, names, tsec, queries, runs, wresult>>

MrCompleteExec ==
    /\ MrAt("completer", "exec")
    /\ wres' = ExecRes(NoAnswer, MarcoAssemble(wprep.sections), "", "")
    /\ wpc' = "post"
    /\ UNCHANGED <<engine, wf, resp, wnode, ctx, wprep, names, tsec, queries, runs, wresult>>

\* post: shared["report"] = exec_res, the files are written, "report_saved"
MrCompletePost ==
    /\ MrAt("completer", "post")
    /\ ctx' = [ctx EXCEPT !.report = [set |-> TRUE, body |-> wres.items]]
    /\ WfAdvance("report_saved")
    /\ UNCHANGED <<engine, wf, runs>>

\* flow = Flow(start=keyword_gen); flow.run(shared_state)
InitMarco ==
    /\ EngineIdle
    /\ wf = "marco"
    /\ wnode = "keyword_gen"
    /\ wpc = "prep"
    /\ ctx = EmptyCtx
    /\ wprep = NoPrep
    /\ wres = NoExec
    /\ names = <<>>
    /\ tsec = <<>>
    /\ queries = 0
    /\ runs = 0
    /\ wresult = "unset"
    /\ resp = ""

NextMarco ==
    \/ MrKeywordPrep
    \/ MrKeywordExec
    \/ MrKeywordPost
    \/ MrSearchPrep
    \/ MrSearchExec
    \/ MrSearchPost
    \/ MrSummaryPrep
    \/ MrSummaryExec
    \/ MrSummaryPost
    \/ MrControllerPrep
    \/ MrControllerExec
    \/ MrControllerPost
    \/ MrGeneratePrep
    \/ MrGenerateExec
    \/ MrGeneratePost
    \/ MrCompletePrep
    \/ MrCompleteExec
    \/ MrCompletePost

SpecMarco == InitMarco /\ [][NextMarco]_vars

\* The script's one thread runs on until the walk ends or an exception leaves it.
SpecMarcoFair == SpecMarco /\ WF_vars(NextMarco)

\* ------------------------------------------------- wiring nodes (BaseNode.next)
\* An action that is not a str, as the operand of `node - action`.
NotStr == "<not a str>"

\* if action in self.successors
has_successor(succ, action) == succ[action] # None

\* Mutant: an entry that exists is kept.
set_successor_keep(succ, action, node) ==
    IF succ[action] # None THEN succ ELSE [succ EXCEPT ![action] = node]

\* self.successors[action] = node
set_successor(succ, action, node) == [succ EXCEPT ![action] = node]

\* BaseNode.next(node, action), called on src in the way `via`: warn when the
\* action has an entry, store the node, return it.
NodeNext(src, node, action, via) ==
    /\ warned' = IF has_successor(successors[src], action) THEN Append(warned, action)
                                                            ELSE warned
    /\ successors' = [successors EXCEPT ![src] = set_successor(@, action, node)]
    /\ regs' = Append(regs, [src |-> src, action |-> action, node |-> node, via |-> via])
    /\ UNCHANGED berr

\* A wiring statement can be run: the script is at its wiring part and none raised.
Wiring ==
    /\ kind = "wiring"
    /\ ~berr
    /\ Len(regs) < MaxRegs

\* src.next(node, action)
WireNext ==
    /\ Wiring
    /\ \E src \in Nodes, node \in Nodes, action \in RegLabels : NodeNext(src, node, action, "next")
    /\ UNCHANGED <<kind, max_retries, wait, fb_overridden, flow_params, prep_ret,
                   node_params, shared, flowv, taskv, ghost, wfv>>

\* src >> other: __rshift__ calls self.next(other), action "default"
WireRShift ==
    /\ Wiring
    /\ \E src \in Nodes, other \in Nodes : NodeNext(src, other, "default", ">>")
    /\ UNCHANGED <<kind, max_retries, wait, fb_overridden, flow_params, prep_ret,
                   node_params, shared, flowv, taskv, ghost, wfv>>

\* src - action >> tgt: __sub__ raises TypeError unless action is a str, else
\* _ConditionalTransition.__rshift__ calls src.next(tgt, action)
WireConditional ==
    /\ Wiring
    /\ \E src \in Nodes, tgt \in Nodes, action \in RegLabels \cup {NotStr} :
         IF action = NotStr
           THEN berr' = TRUE /\ UNCHANGED <<warned, regs, successors>>
           ELSE NodeNext(src, tgt, action, "- >>")
    /\ UNCHANGED <<kind, max_retries, wait, fb_overridden, flow_params, prep_ret,
                   node_params, shared, flowv, taskv, ghost, wfv>>

\* Nodes as BaseNode.__init__ leaves them: successors = {}
InitWiring ==
    /\ kind = "wiring"
    /\ successors = NoSuccessors
    /\ Configured([n \in Nodes |-> Profile(1, 0, FALSE)])
    /\ flow_params = EmptyDict
    /\ prep_ret = [none |-> TRUE, items |-> <<>>]
    /\ node_params = [n \in Nodes |-> EmptyDict]
    /\ shared = [log |-> <<>>]
    /\ IdleTasks
    /\ NoBuildLog
    /\ WfIdle

NextWiring ==
    \/ WireNext
    \/ WireRShift
    \/ WireConditional

SpecWiring == InitWiring /\ [][NextWiring]_vars

C10_State ==
    wf = "industry" =>
        LET gs == ctx.generated_sections
        IN  \A i, j \in 1..Len(gs) : i # j => gs[i].name # gs[j].name

C10_Step ==
    wf = "industry" =>
        LET gs == ctx.generated_sections
            gs2 == ctx'.generated_sections
        IN  /\ Len(gs2) >= Len(gs)
            /\ \A i \in 1..Len(gs) : gs2[i].name = gs[i].name

C10_NoDuplicates == [] C10_State /\ [][C10_Step]_vars

C10_Witness ==
    /\ wf = "industry"
    /\ wnode = "research"
    /\ wpc = "exec"
    /\ queries = 1
    /\ Len(ctx.generated_sections) = 2
    /\ wres.ans.action = "generate"
    /\ wres.ans.section.t = "dict"
    /\ In(wres.ans.section.name, names)

\* C11: in macro_workflow a step never lengthens shared["generated_sections"] by a
\* section whose name is already among the names of the sections produced so far,
\* whatever the Oracle answers.
C11_Step ==
    wf = "macro" =>
        LET gs == ctx.generated_sections
            gs2 == ctx'.generated_sections
        IN  Len(gs2) > Len(gs) => ~In(gs2[Len(gs2)].name, section_names(gs))

C11_DuplicateRejected == [][C11_Step]_vars

\* The Controller's exec has asked the Oracle and the answer it holds is a generate
\* naming a section that is among the names exec compares with.
AtDuplicateAnswer ==
    /\ wf \in {"industry", "postgres"}
    /\ wnode = "research"
    /\ wpc = "exec"
    /\ resp = "dict"
    /\ wres.ans.action = "generate"
    /\ has_name(wres.ans.section)
    /\ In(wres.ans.section.name, names)

\* C12: an exec of the Controller of industry_workflow or macro_workflow_postgres
\* does not go on for ever asking again after answers that name a produced section:
\* it returns, or the Oracle gives some other answer.
C12_RequeryBounded == []<>(~AtDuplicateAnswer)

\* C13: in run_marco_research_report, when the Controller's exec has returned at a
\* run that found max_sections or more produced sections, the action it returned is
\* "complete", whatever the Oracle answered.
C13_CapForcesComplete ==
    (MrAt("macro_flow", "post") /\ Len(ctx.generated_sections) >= max_sections) =>
        wres.ans.action = "complete"

\* C14: every run of run_marco_research_report comes to the Assembly node
\* (completer), for every sequence of Oracle answers, unless flow.run has ended
\* before that.
C14_ReachesAssembly == <>(wnode = "completer" \/ wpc \in {"done", "raised"})

\* C15: in industry_workflow, when the Oracle call failed, or its response has no
\* yaml fence, or the fenced text does not parse, the Controller's exec returns the
\* result with the action "complete" and raises nothing, and its post then leaves
\* the Context as it is and hands the walk to the Assembly node.
C15_State ==
    (wf = "industry" /\ resp \in {"error", "nofence", "badyaml"}) =>
        /\ wnode = "research"
        /\ wpc = "post"
        /\ wres.ans = DefaultComplete

C15_Step ==
    (wf = "industry" /\ resp \in {"error", "nofence", "badyaml"}) =>
        /\ wnode' = "complete"
        /\ wpc' = "prep"
        /\ ctx' = ctx

C15_ParseFailureCompletes == [] C15_State /\ [][C15_Step]_vars

C15_Witness ==
    /\ wf = "industry"
    /\ resp = "badyaml"
    /\ wpc = "post"
    /\ queries = 2
    /\ Len(ctx.generated_sections) = 1

\* C16: in macro_workflow, macro_workflow_postgres and industry_workflow a flow.run
\* that has returned ended at the Assembly node, whose post wrote shared["report"]:
\* the walk never ends at another node for want of a successor under the action
\* that node returned.
C16_EndsAtAssembly ==
    (wf \in {"macro", "postgres", "industry"} /\ wpc = "done") => ctx.report.set

\* C17: the Retrieval node is given the terms the Controller stored; its exec calls
\* the Retriever for one term after the other in list order, once each, and what it
\* returns holds one entry per term in that order; its post appends these entries,
\* in that order, to shared["context"], and the next node run is the Controller.
C17_State ==
    (wnode = "search" /\ wpc \in {"exec", "post"}) =>
        /\ wprep.terms = terms_get(ctx.search_terms)
        /\ Len(wres.items) <= Len(wprep.terms.l)
        /\ \A i \in 1..Len(wres.items) : wres.items[i].term = wprep.terms.l[i]
        /\ wpc = "post" => Len(wres.items) = Len(wprep.terms.l)

C17_Step ==
    /\ (wnode = "search" /\ wpc = "exec" /\ wres' # wres) =>
          /\ Len(wres'.items) = Len(wres.items) + 1
          /\ SubSeq(wres'.items, 1, Len(wres.items)) = wres.items
    /\ (wnode = "search" /\ wpc = "post") =>
          /\ ctx'.context = ctx.context \o wres.items
          /\ wnode' = "research"
          /\ wpc' = "prep"

C17_SearchInOrder == [] C17_State /\ [][C17_Step]_vars

C17_Witness ==
    /\ wf = "industry"
    /\ wnode = "research"
    /\ wpc = "prep"
    /\ ctx.search_terms = Terms(<<"t1", "t2">>)
    /\ ctx.context = <<[term |-> "t1", results |-> "nohits"], [term |-> "t2", results |-> "hits"]>>

\* C18: the report the Assembly node of industry_workflow, macro_workflow and
\* macro_workflow_postgres writes holds, after its title, the produced sections in
\* the order they were appended to shared["generated_sections"]: the i-th section
\* of the report is the i-th entry of the list, and the report holds as many
\* sections as the list has entries.
C18_OrderPreserved ==
    (wf \in {"industry", "macro", "postgres"} /\ ctx.report.set) =>
        LET gs == ctx.generated_sections
            body == ctx.report.body
        IN  /\ Len(body) = 1 + 2 * Len(gs)
            /\ body[1] = "title"
            /\ \A i \in 1..Len(gs) :
                 /\ body[2 * i] = gs[i].name
                 /\ body[2 * i + 1] = gs[i].content

C18_Witness ==
    /\ wf = "industry"
    /\ wpc = "done"
    /\ ctx.report.set
    /\ ctx.report.body = <<"title", "s2", "c", "s1", "">>

\* C19: in the decision-loop workflows no exception leaves flow.run: an exec of the
\* Controller, the Retrieval node or the Production node whose attempts all fail is
\* answered by a default result, and the walk goes on.
C19_NoExceptionEscapes ==
    wf \in {"industry", "macro", "postgres"} => wpc # "raised"

\* The positions of the registrations made on node n under label l.
RegsOf(n, l) == {i \in 1..Len(regs) : regs[i].src = n /\ regs[i].action = l}

\* C20: after any sequence of registrations every node's entry under a label is
\* the node of the last registration made on it under that label (none when there
\* was no such registration); a warning has been emitted for exactly the
\* registrations that found an entry, in their order; a registration raises
\* nothing and leaves the entries of the other labels and nodes as they were.
C20_State ==
    /\ \A n \in Nodes, l \in RegLabels :
         successors[n][l] =
            IF RegsOf(n, l) = {} THEN None
            ELSE regs[CHOOSE i \in RegsOf(n, l) : \A j \in RegsOf(n, l) : j <= i].node
    /\ LET again == {i \in 1..Len(regs) :
                       \E j \in 1..(i - 1) : regs[j].src = regs[i].src
                                               /\ regs[j].action = regs[i].action}
       IN  /\ Len(warned) = Cardinality(again)
           /\ \A i \in again :
                 warned[Cardinality({j \in again : j <= i})] = regs[i].action

C20_Step ==
    regs' # regs =>
        /\ berr' = berr
        /\ \A n \in Nodes, l \in RegLabels :
             (n # regs'[Len(regs')].src \/ l # regs'[Len(regs')].action) =>
                 successors'[n][l] = successors[n][l]

C20_LastRegistrationWins == [] C20_State /\ [][C20_Step]_vars

C20_Witness ==
    /\ kind = "wiring"
    /\ Len(regs) = 3
    /\ regs[1] = [src |-> "A", action |-> "a", node |-> "A", via |-> "- >>"]
    /\ regs[2] = [src |-> "A", action |-> "default", node |-> "B", via |-> ">>"]
    /\ regs[3] = [src |-> "A", action |-> "a", node |-> "B", via |-> "next"]
    /\ warned = <<"a">>
    /\ successors["A"]["a"] = "B"
    /\ successors["A"]["default"] = "B"
    /\ ~berr

\* C21: under AsyncParallelBatchFlow a node run of sub-flow i reads, at every
\* point of every interleaving, the flow's params overridden by parameter set i,
\* and the attempts it has counted are its own: the count is the number of its
\* failed attempts, it raises only when max_retries of its own attempts failed,
\* whatever the same registered node is doing in another sub-flow.
C21_Isolated ==
    kind = "AsyncParallelBatchFlow" =>
        \A t \in Tasks :
            LET e == ev[t] IN
            /\ InNodeRun(t) =>
                  /\ \A k \in Keys :
                       ParamsOf(t)[k] = IF prep_ret.items[t][k] # Absent
                                          THEN prep_ret.items[t][k]
                                          ELSE flow_params[k]
                  /\ Cardinality(Attempts(e)) <= max_retries[curr[t].id]
                  /\ pc[t] = "exec" => cur_retry[t] = Cardinality(Failures(e))
                  /\ pc[t] = "sleep" => cur_retry[t] = Cardinality(Failures(e)) - 1
            /\ pc[t] = "raised" =>
                  /\ Cardinality(Failures(e)) = max_retries[curr[t].id]
                  /\ Attempts(e) = Failures(e)

C21_Witness ==
    /\ kind = "AsyncParallelBatchFlow"
    /\ pc[1] = "exec"
    /\ pc[2] = "post"
    /\ curr[1].id = curr[2].id
    /\ cur_retry[1] = 1
    /\ cur_retry[2] = 0
    /\ ParamsOf(1)["k1"] = "y"
    /\ ParamsOf(2)["k1"] = "x"

\* The number of entries of l that are x.
Count(l, x) == Cardinality({i \in 1..Len(l) : l[i] = x})

RECURSIVE CountAll(_, _)
CountAll(n, x) == IF n = 0 THEN 0 ELSE Count(appended[n], x) + CountAll(n - 1, x)

C22_State ==
    kind = "AsyncParallelBatchFlow" =>
        /\ \A x \in Nodes : Count(shared.log, x) = CountAll(MaxPar, x)
        /\ \A t \in Tasks : Len(appended[t]) = steps[t] - (IF pc[t] \in {"exec", "sleep", "post", "raised"} THEN 1 ELSE 0)
        /\ fpc = "done" =>
              \A j \in Marks("post", 0) :
                  /\ hist[j].n = Len(shared.log)
                  /\ \A t \in 1..BatchSize : appended[t] # <<>>

C22_Step ==
    kind = "AsyncParallelBatchFlow" =>
        /\ Len(shared.log') >= Len(shared.log)
        /\ SubSeq(shared.log', 1, Len(shared.log)) = shared.log
        /\ \A t \in Tasks :
              appended'[t] # appended[t] =>
                  /\ shared.log' = Append(shared.log, curr[t].id)
                  /\ appended'[t] = Append(appended[t], curr[t].id)

\* C22: when sub-flows interleave and each post appends to the Context without a
\* suspension between its read and its write, every entry a sub-flow appended is in
\* the Context once and stays there: the Context only grows at its end, holds
\* exactly the entries the sub-flows appended, and the flow's post sees all of them.
C22_NoLostUpdate == [] C22_State /\ [][C22_Step]_vars

C22_Witness ==
    /\ kind = "AsyncParallelBatchFlow"
    /\ fpc = "done"
    /\ shared.log = <<"A", "A", "B", "B">>
    /\ appended[1] = <<"A", "B">>
    /\ appended[2] = <<"A", "B">>
    /\ \E j \in Marks("end", 2) : \E l \in Marks("end", 1) : j < l

\* An answer whose action exec has turned into "complete": the section of the
\* generate answer is still in it.
Overridden(ans) == ans.action = "complete" /\ ans.section # NoSection

\* C23 as stated: in run_marco_research_report, once the names of the produced
\* sections cover at least 75% of the four standard section types, exec returns no
\* generate answer, however few sections there are.
C23_CoverageForcesComplete ==
    (MrAt("macro_flow", "post") /\ coverage_reached(wprep.sections)) =>
        wres.ans.action # "generate"

\* C23 amended: exec turns a generate answer into "complete" exactly when six
\* sections have been produced; with fewer, a generate answer is returned as it
\* is, also when the section names cover 75% of the standard types.
C23_OnlyCapForcesComplete ==
    MrAt("macro_flow", "post") =>
        /\ Overridden(wres.ans) => Len(wprep.sections) >= max_sections
        /\ wres.ans.action = "generate" => Len(wprep.sections) < max_sections

C23_Witness ==
    /\ MrAt("macro_flow", "post")
    /\ coverage_reached(wprep.sections)
    /\ predecision(wprep.sections) = "complete"
    /\ Len(wprep.sections) = 2
    /\ wres.ans.action = "generate"

\* C24: in macro_workflow_postgres, every section name the Oracle has proposed in a
\* generate answer is in shared["target_sections"] when the Controller's exec has
\* returned and in every later Controller step, and the Controller's post returns
\* "complete", whatever the answer, once every such name is the name of a produced
\* section.
C24_State ==
    wf = "postgres" =>
        /\ (WfAt("research", "post") /\ wres.ans.action = "generate" /\ has_name(wres.ans.section)) =>
              /\ ctx.target_sections.present
              /\ In(wres.ans.section.name, ctx.target_sections.l)
        /\ \A i \in 1..Len(ctx.generated_sections) :
              In(ctx.generated_sections[i].name, ctx.target_sections.l)

C24_Step ==
    (wf = "postgres" /\ WfAt("research", "post")
       /\ ctx.generated_sections # <<>>
       /\ wres.ans.action = "generate" /\ has_name(wres.ans.section)
       /\ In(wres.ans.section.name, section_names(ctx.generated_sections))
       /\ \A i \in 1..Len(tsec) : In(tsec[i], section_names(ctx.generated_sections)))
      => wnode' = "complete"

C24_TargetsRecorded == [] C24_State /\ [][C24_Step]_vars

\* The industry_workflow Controller holds an Oracle answer whose fenced block was
\* parsed and is not a mapping with an action, or whose action is none of search,
\* generate and complete.
AtInvalidIntent ==
    /\ wf = "industry"
    /\ wnode = "research"
    /\ resp = "notdict" \/ (resp = "dict" /\ wres.ans.action = "other")

\* C25: in industry_workflow, when the Oracle's fenced block parses and does not
\* resolve to search, generate or complete, the Controller's exec has returned
\* the result "complete": it has not raised and is not about to ask the Oracle again.
C25_InvalidIntentCompletes ==
    AtInvalidIntent => (wpc = "post" /\ wres.ans.action = "complete")

\* Every Retriever call of the Retrieval node's exec has returned, with no result.
ZeroResults ==
    /\ wf \in {"industry", "macro"}
    /\ wnode = "search"
    /\ Len(wres.items) = Len(wprep.terms.l)
    /\ \A i \in 1..Len(wres.items) : wres.items[i].results = "nohits"

C26_State ==
    (wf \in {"industry", "macro"} /\ wnode = "search" /\ wpc = "raised") =>
        /\ wf = "macro"
        /\ Len(wres.items) < Len(wprep.terms.l)

C26_Step ==
    /\ (ZeroResults /\ wpc = "exec") => (wpc' = "post" /\ ctx' = ctx)
    /\ (ZeroResults /\ wpc = "post") =>
          /\ ctx' = [ctx EXCEPT !.context = ctx.context \o wres.items]
          /\ Len(ctx'.context) = Len(ctx.context) + Len(wprep.terms.l)
          /\ \A i \in 1..Len(wprep.terms.l) :
                ctx'.context[Len(ctx.context) + i] = [term |-> wprep.terms.l[i], results |-> "nohits"]
          /\ wprep.terms.l = <<>> => ctx' = ctx
          /\ wnode' = "research"
          /\ wpc' = "prep"

\* C26: in industry_workflow and macro_workflow, a Retrieval step whose Retriever
\* calls all returned no result, or whose term list is empty, raises nothing: its
\* exec returns, its post changes no part of the Context but shared["context"],
\* to which it appends one entry with empty results for each term and nothing
\* else, and the next node run is the Controller.
C26_EmptySearch == [] C26_State /\ [][C26_Step]_vars

C26_Witness ==
    /\ wf = "industry"
    /\ wnode = "research"
    /\ wpc = "prep"
    /\ ctx.search_terms = Terms(<<"t1", "t2">>)
    /\ Len(ctx.generated_sections) = 1
    /\ ctx.context = <<[term |-> "t1", results |-> "hits"], [term |-> "t2", results |-> "hits"],
                       [term |-> "t1", results |-> "nohits"], [term |-> "t2", results |-> "nohits"]>>

\* l is the beginning of m.
IsPrefix(l, m) == Len(l) <= Len(m) /\ SubSeq(m, 1, Len(l)) = l

C27_Step ==
    wf \in {"industry", "macro", "postgres"} =>
        /\ IsPrefix(ctx.context, ctx'.context)
        /\ IsPrefix(ctx.generated_sections, ctx'.generated_sections)
        /\ \A i \in 1..Len(ctx.generated_sections) :
              /\ ctx'.generated_sections[i].name = ctx.generated_sections[i].name
              /\ ctx'.generated_sections[i].content = ctx.generated_sections[i].content

\* C27: every step of a run of a decision-loop script leaves the value that
\* shared["context"] had as the beginning of its new value, and likewise for
\* shared["generated_sections"], whose entries so keep their place, their name and
\* their content.
C27_AppendOnly == [][C27_Step]_vars

C27_Witness ==
    /\ wf = "industry"
    /\ wnode = "research"
    /\ wpc = "prep"
    /\ Len(ctx.generated_sections) = 1
    /\ Len(ctx.context) = 4
    /\ ctx.context[1].results # ctx.context[3].results

\* C28: in macro_workflow and macro_workflow_postgres, when the run has ended
\* after the Assembly node stored the report, flow.run has returned the text of
\* the report, the value the main block tests before it writes the file.
C28_RunReturnsReport ==
    (wf \in {"macro", "postgres"} /\ wpc = "done" /\ ctx.report.set) => wresult = ReportText

\* C29: whatever max_retries is, a node run that has come to its post has made at
\* least one exec attempt, and the value post is given is that of the returning
\* attempt or of exec_fallback.
C29_ExecInvoked ==
    \A t \in Tasks :
        pc[t] = "post" =>
            /\ Attempts(ev[t]) # {}
            /\ exec_res[t] \in {"v"} \cup {FbVal(e) : e \in NodeExcs}

\* A step of sub-flow u inside a node run.
NodeRunStep(u) ==
    \/ NodeExecReturn(u)
    \/ NodeExecRaise(u)
    \/ NodeSleep(u)
    \/ NodePost(u)

C30_State ==
    kind = "AsyncParallelBatchFlow" =>
        /\ (fpc = "raised") <=> (\E t \in Tasks : pc[t] = "raised")
        /\ \A t \in Tasks : (pc[t] = "raised") <=> (Marks("raise", t) # {})
        /\ fpc = "raised" =>
              /\ Marks("post", 0) = {}
              /\ result = "unset"
              /\ \A u \in Tasks :
                    /\ pc[u] \in {"idle", "loop", "exec", "sleep", "post", "advance", "returned", "raised"}
                    /\ pc[u] \in {"exec", "sleep", "post"} => ENABLED NodeRunStep(u)

C30_Step ==
    kind = "AsyncParallelBatchFlow" =>
        /\ fpc = "raised" => (fpc' = "raised" /\ result' = result)
        /\ \A t \in Tasks :
              (pc[t] # "raised" /\ pc'[t] = "raised") =>
                  /\ shared' = shared
                  /\ \A u \in Tasks \ {t} : pc'[u] = pc[u] /\ curr'[u] = curr[u]

\* C30: when a sub-flow of an AsyncParallelBatchFlow raises, _run_async has raised
\* for good: post_async is never invoked and run_async returns nothing; the step
\* that raises leaves every sibling where it was, and a sibling inside a node run
\* can still take its next step, so that siblings run nodes and append to the
\* Context after the failure.
C30_SiblingsRunOn == [] C30_State /\ [][C30_Step]_vars

C30_Witness ==
    /\ kind = "AsyncParallelBatchFlow"
    /\ fpc = "raised"
    /\ pc[1] = "raised"
    /\ pc[2] = "returned"
    /\ appended[1] = <<>>
    /\ appended[2] = <<"A", "B">>
    /\ \E j \in Marks("raise", 1) :
          /\ hist[j].n = 0
          /\ Len(shared.log) = 2
          /\ \E l \in Marks("end", 2) : j < l


====
